---- MODULE Spec2Model ----
(***************************************************************************)
(* Model of python/rclone_sync.py: the RcloneSyncManager retry controller  *)
(* (run_sync_with_retry / run_bisync), its log parsers and the conflict    *)
(* resolver (resolve_remaining_conflicts / _resolve_single_conflict).      *)
(*                                                                         *)
(* A file name is the sequence of its dot-separated components, so         *)
(* "a.txt.conflict1" is <<"a", "txt", "conflict1">>.  All files live in    *)
(* one directory under local_path, so a relative path is a file name.      *)
(* A log is the sequence of its lines; a line is a record of the features  *)
(* the regular expressions of the parsers look at.                         *)
(***************************************************************************)
EXTENDS Integers, Sequences, FiniteSets, TLC

(* ------------------------------ bounds --------------------------------- *)
\* modification times range over 1..MaxTime
MaxTime == 2
\* with max_retries = 0 (unlimited) the model stops starting ordinary
\* attempts after MaxUnlimitedAttempts of them, unless the cancellation flag
\* is set (the attempt then started is the last)
MaxUnlimitedAttempts == 2
\* the log file holds at most MaxLogLines lines the parsers react to
MaxLogLines == 3
\* the manager processes started on one local/remote pair
NumManagers == 2
\* the log directory holds at most MaxOldLogs logs of earlier runs
MaxOldLogs == 2
\* extract_log_digest reads logs of at most MaxDigestLines lines without
\* "not deleting ... IO errors" lines, and logs of at most MaxSkipLogLines
\* lines with them
MaxDigestLines == 32
MaxSkipLogLines == 4

(* ------------------------- program constants --------------------------- *)
EXIT_SUCCESS == 0
EXIT_RETRYABLE == 1
EXIT_USAGE_ERROR == 2
EXIT_CRITICAL == 7
\* Optional[int] None (an absent modification time / no exit code yet)
None == -1
\* SyncConfig.max_retries default; --max-retries ranges over 0..3
DefaultMaxRetries == 3
\* SyncConfig.retry_delay default
DefaultRetryDelay == 30
\* telegram_bots/rclone_log_analyze.py
MAX_ERRORS == 30

Times == 1..MaxTime

VARIABLES
    config,          \* SyncConfig: dry_run, resync, max_retries, retry_delay
    interrupted,     \* self._interrupted
    files,           \* local tree: file name -> [content, mtime]
    remote,          \* remote tree: relative path -> [content, mtime]
    lock,            \* the bisync lock file exists
    log,             \* contents of self.log_file
    pc,              \* position of the manager's thread
    caller,          \* who called run_bisync / the resolver
    attempt,         \* run_sync_with_retry: attempt
    proc,            \* run_bisync: outcome of subprocess.run
    result,          \* run_sync_with_retry: result
    resync_result,   \* run_sync_with_retry: resync_result
    returned,        \* the value run_sync_with_retry returned
    queue,           \* files still to visit in a per-file retry loop
    retry_results,   \* resolutions collected by a per-file retry loop
    conflict_files,  \* resolve_remaining_conflicts: markers still to visit
    resolutions,     \* resolve_remaining_conflicts: resolutions
    cur,             \* _resolve_single_conflict: the conflict in hand
    trace,           \* history of the external operations performed
    runNo,           \* number of the resolve_remaining_conflicts call (1, 2)
    snap,            \* start: local tree when the current resolver call began;
                     \* before, prev, left: the tree at the start of the
                     \* previous call, the resolutions it returned and the
                     \* markers it had not visited when it returned
    mgr_pc,          \* several managers on one pair: position of each
    mgr_attempt,     \* ... each manager's attempt counter
    mgr_exit,        \* ... exit code of each manager's last subprocess
    lock_owner,      \* ... whose subprocess wrote the pair's lock file
    main_pc,         \* main as a whole: position of main
    main_in,         \* ... what the command line and the environment hold
    log_dir,         \* ... the log directory: exists, files (name -> mtime)
    summary,         \* ... the summaries written to last-sync-summary.json
    main_result,     \* ... main: result
    main_status,     \* ... the exit status main returned
    main_trace,      \* ... history of main's calls
    digest_pc,       \* extract_log_digest: position
    digest_errors,   \* ... digest.errors
    errors_seen,     \* ... errors_seen
    digest_read,     \* ... number of lines read so far
    digest_skipped,  \* ... number of error texts read and not appended
    folders_not_deleted  \* ... digest.folders_not_deleted

\* the variables of several managers sharing one local/remote pair
pairVars == <<mgr_pc, mgr_attempt, mgr_exit, lock_owner>>

\* the variables of main seen as a whole
mainVars == <<main_pc, main_in, log_dir, summary, main_result, main_status,
              main_trace>>

\* the variables of the log digest of the Telegram bot
digestVars == <<digest_pc, digest_errors, errors_seen, digest_read,
                digest_skipped, folders_not_deleted>>

\* the variables of one manager and its trees
runVars == <<config, interrupted, files, remote, lock, log, pc, caller, attempt,
             proc, result, resync_result, returned, queue, retry_results,
             conflict_files, resolutions, cur, trace, runNo, snap>>

vars == <<runVars, pairVars, mainVars, digestVars>>

\* the variables of the retry controller, which the resolver leaves alone
ctlVars == <<lock, log, attempt, proc, result, resync_result, returned,
             queue, retry_results>>

(* ------------------------------ file names ----------------------------- *)
\* components matching  conflict[0-9]+
ConflictTokens == {"conflict1", "conflict2"}
\* datetime.now().strftime("%Y%m%d")
date_suffix == "20260101"
LocalToken == "local-20260101"
RemoteToken == "remote-20260101"

NoPath == <<>>

\* the two originals of the model: one with an extension, one without
FileA == <<"a", "txt">>
FileB == <<"b">>

\* Path.rglob("*.conflict[0-9]*"): some component after the first starts
\* with "conflict" and a digit (anything may follow it)
MatchesConflictGlob(name) ==
    \E i \in 2..Len(name) : name[i] \in ConflictTokens

\* re.match(r"(.+)\.conflict\d+$", name): the LAST component is conflict\d+
_get_original_from_conflict(name) ==
    IF Len(name) >= 2 /\ name[Len(name)] \in ConflictTokens
    THEN SubSeq(name, 1, Len(name) - 1)
    ELSE NoPath

\* Path.suffix and Path.stem
Suffix(name) == IF Len(name) >= 2 THEN <<name[Len(name)]>> ELSE <<>>
Stem(name) == IF Len(name) >= 2 THEN SubSeq(name, 1, Len(name) - 1) ELSE name

\* f"{stem}.local-{date_suffix}{ext}" and f"{stem}.remote-{date_suffix}{ext}"
local_name(original) == Stem(original) \o <<LocalToken>> \o Suffix(original)
remote_name(original) == Stem(original) \o <<RemoteToken>> \o Suffix(original)

(* --------------------------- file operations --------------------------- *)
Exists(fs, name) == name \in DOMAIN fs

\* Path.unlink()
Unlink(fs, name) == [n \in DOMAIN fs \ {name} |-> fs[n]]

\* Path.rename(target): POSIX rename, silently replaces an existing target
Rename(fs, src, dst) ==
    [n \in (DOMAIN fs \ {src}) \cup {dst} |-> IF n = dst THEN fs[src] ELSE fs[n]]

\* the files found by rglob
conflict_glob(fs) == {n \in DOMAIN fs : MatchesConflictGlob(n)}

(* ----------------------- _resolve_single_conflict ---------------------- *)
Resolution(path, action, message) ==
    [path |-> path, action |-> action, message |-> message]

\* line 578: if self.config.dry_run
IsDryRun_Never(cfg) == FALSE
IsDryRun(cfg) == cfg.dry_run

\* lines 578-596: the dry-run decision
DryRunAction_TieKeepsLocal(local_mtime_ns, remote_mtime_ns) ==
    IF local_mtime_ns >= remote_mtime_ns THEN "would_keep_local"
    ELSE "would_keep_remote"
DryRunAction(local_mtime_ns, remote_mtime_ns) ==
    IF local_mtime_ns > remote_mtime_ns THEN "would_keep_local"
    ELSE IF remote_mtime_ns > local_mtime_ns THEN "would_keep_remote"
    ELSE "would_keep_both"

\* lines 599-636: the real decision
RealAction(local_mtime_ns, remote_mtime_ns) ==
    IF local_mtime_ns > remote_mtime_ns THEN "kept_local"
    ELSE IF remote_mtime_ns > local_mtime_ns THEN "kept_remote"
    ELSE "kept_both"

\* lines 599-601: local is newer, conflict_file.unlink()
KeepLocalFiles_DeletesOriginal(fs, conflict_file, original_file) ==
    Unlink(fs, original_file)
KeepLocalFiles(fs, conflict_file, original_file) ==
    Unlink(fs, conflict_file)

\* lines 608-611: remote is newer, original_file.unlink();
\* conflict_file.rename(original_file)
KeepRemoteFiles_KeepsMarker(fs, conflict_file, original_file) ==
    [n \in DOMAIN fs |-> IF n = original_file THEN fs[conflict_file] ELSE fs[n]]
KeepRemoteFiles(fs, conflict_file, original_file) ==
    Rename(Unlink(fs, original_file), conflict_file, original_file)

\* lines 617-630: equal, original_file.rename(local_path);
\* conflict_file.rename(remote_path_local)
KeepBothFiles_SwapsNames(fs, conflict_file, original_file) ==
    Rename(Rename(fs, original_file, remote_name(original_file)),
           conflict_file, local_name(original_file))
KeepBothFiles(fs, conflict_file, original_file) ==
    Rename(Rename(fs, original_file, local_name(original_file)),
           conflict_file, remote_name(original_file))

\* the local tree after the real resolution of one conflict
ResolvedFiles(fs, c) ==
    IF c.local_mtime_ns > c.remote_mtime_ns
    THEN KeepLocalFiles(fs, c.conflict_file, c.original_file)
    ELSE IF c.remote_mtime_ns > c.local_mtime_ns
    THEN KeepRemoteFiles(fs, c.conflict_file, c.original_file)
    ELSE KeepBothFiles(fs, c.conflict_file, c.original_file)

\* a Path operation of the chosen branch raises (its file is gone)
ResolveRaises(fs, c) ==
    \/ ~Exists(fs, c.conflict_file)
    \/ c.remote_mtime_ns >= c.local_mtime_ns /\ ~Exists(fs, c.original_file)

\* the tree an exception leaves behind: the renames and deletions done
\* before the failing call
RaisedFiles(fs, c) ==
    IF Exists(fs, c.original_file) /\ c.remote_mtime_ns > c.local_mtime_ns
    THEN Unlink(fs, c.original_file)
    ELSE IF Exists(fs, c.original_file) /\ c.remote_mtime_ns = c.local_mtime_ns
    THEN Rename(fs, c.original_file, local_name(c.original_file))
    ELSE fs

NoConflict == [conflict_file |-> NoPath, original_file |-> NoPath,
               local_mtime_ns |-> None, remote_mtime_ns |-> None]

\* _get_remote_mtime: the answers rclone lsjson can give for a path
RemoteMtimeAnswers(rem, path) ==
    {None} \cup (IF path \in DOMAIN rem THEN {rem[path].mtime} ELSE {})

\* rclone copyto local -> remote succeeded (modtime is preserved)
PushedRemote(rem, fs, path) ==
    IF path \in DOMAIN fs
    THEN [p \in DOMAIN rem \cup {path} |-> IF p = path THEN fs[path] ELSE rem[p]]
    ELSE rem

\* rclone copyto remote -> local succeeded
PulledFiles(fs, rem, path) ==
    IF path \in DOMAIN rem
    THEN [n \in DOMAIN fs \cup {path} |-> IF n = path THEN rem[path] ELSE fs[n]]
    ELSE fs

\* a file in a subdirectory of local_path, and that directory
DirD == <<"d/">>
FileC == <<"d/c", "txt">>
DirEntry == [content |-> <<"directory">>, mtime |-> 1]

\* Path.parent of a local file: NoPath stands for local_path itself
Parent(path) == IF path = FileC THEN DirD ELSE NoPath

\* line 767: local_file.parent.mkdir(parents=True, exist_ok=True)
MkdirParent(fs, path) ==
    IF Parent(path) = NoPath \/ Exists(fs, Parent(path))
    THEN fs
    ELSE [n \in DOMAIN fs \cup {Parent(path)} |->
            IF n = Parent(path) THEN DirEntry ELSE fs[n]]

\* the local tree after _copy_from_remote (763-802) or _copy_to_remote
\* (804-842): the parent directory is made at 767, before the dry-run test
\* at 776 and whatever the copy does
LocalAfterCopy(fs, rem, path, direction, action) ==
    IF direction # "pull" THEN fs
    ELSE IF action = "pulled" THEN PulledFiles(MkdirParent(fs, path), rem, path)
    ELSE MkdirParent(fs, path)

Event(op, arg) == [op |-> op, arg |-> arg]

Last(seq) == seq[Len(seq)]

\* lines 510, 533, 651, 690: a per-file loop breaks when the flag is set
LoopBreaks_Never(flag) == FALSE
LoopBreaks(flag) == flag

\* lines 573-576: the remote query gave no modification time
QueryFailed_Never(remote_mtime_ns) == FALSE
QueryFailed(remote_mtime_ns) == remote_mtime_ns = None

(* ------------------ resolve_remaining_conflicts (525-541) -------------- *)
\* lines 527-530: list the markers
ResolveEnter ==
    /\ pc = "resolve"
    /\ conflict_files' = conflict_glob(files)
    /\ resolutions' = <<>>
    /\ snap' = [start |-> files, before |-> snap.start, prev |-> resolutions,
                left |-> conflict_files]
    /\ trace' = Append(trace, Event("resolve", caller))
    /\ pc' = "resolve_loop"
    /\ UNCHANGED <<config, interrupted, files, remote, caller, cur, runNo,
                   ctlVars, pairVars, mainVars, digestVars>>

\* lines 532-536 and 555-576: the loop head (break on interrupt), then the
\* first half of _resolve_single_conflict for the next marker: the original's
\* name, its existence, its local mtime and the remote mtime query
ResolveNext ==
    /\ pc = "resolve_loop"
    /\ IF conflict_files = {} \/ LoopBreaks(interrupted)
       THEN /\ pc' = "resolve_return"
            /\ UNCHANGED <<conflict_files, cur, trace>>
       ELSE \E conflict_file \in conflict_files :
            LET original_file == _get_original_from_conflict(conflict_file) IN
            /\ conflict_files' = conflict_files \ {conflict_file}
            /\ IF original_file = NoPath \/ ~Exists(files, original_file)
               THEN /\ pc' = "resolve_loop"
                    /\ UNCHANGED <<cur, trace>>
               ELSE \E remote_mtime_ns \in RemoteMtimeAnswers(remote, original_file) :
                    /\ trace' = Append(trace, Event("lsjson", remote_mtime_ns))
                    /\ IF QueryFailed(remote_mtime_ns)
                       THEN pc' = "resolve_loop" /\ UNCHANGED cur
                       ELSE /\ pc' = "resolve_apply"
                            /\ cur' = [conflict_file |-> conflict_file,
                                       original_file |-> original_file,
                                       local_mtime_ns |-> files[original_file].mtime,
                                       remote_mtime_ns |-> remote_mtime_ns]
    /\ UNCHANGED <<config, interrupted, files, remote, caller, resolutions,
                   runNo, snap, ctlVars, pairVars, mainVars, digestVars>>

\* lines 578-644: the second half of _resolve_single_conflict, and 537-539
ResolveApply ==
    /\ pc = "resolve_apply"
    /\ pc' = "resolve_loop"
    /\ cur' = NoConflict
    /\ IF IsDryRun(config)
       THEN /\ resolutions' = Append(resolutions,
                   Resolution(cur.original_file,
                              DryRunAction(cur.local_mtime_ns, cur.remote_mtime_ns),
                              "dry run"))
            /\ UNCHANGED <<files, remote, trace>>
       ELSE IF ResolveRaises(files, cur)
       THEN /\ resolutions' = Append(resolutions,
                   Resolution(cur.conflict_file, "error", "exception"))
            /\ files' = RaisedFiles(files, cur)
            /\ UNCHANGED <<remote, trace>>
       ELSE /\ resolutions' = Append(resolutions,
                   Resolution(cur.original_file,
                              RealAction(cur.local_mtime_ns, cur.remote_mtime_ns),
                              "resolved"))
            /\ files' = ResolvedFiles(files, cur)
            /\ IF cur.local_mtime_ns > cur.remote_mtime_ns
               THEN \E ok \in BOOLEAN :
                    /\ trace' = Append(trace, Event("copyto", "push"))
                    /\ remote' = IF ok
                                 THEN PushedRemote(remote, files', cur.original_file)
                                 ELSE remote
               ELSE UNCHANGED <<remote, trace>>
    /\ UNCHANGED <<config, interrupted, caller, conflict_files, runNo, snap,
                   ctlVars, pairVars, mainVars, digestVars>>

\* _handle_interrupt (88-91): SIGINT arrives at any point of the run
Interrupt ==
    /\ pc \notin {"done", "exit"}
    /\ ~interrupted
    /\ interrupted' = TRUE
    /\ UNCHANGED <<config, files, remote, pc, caller, conflict_files,
                   resolutions, cur, trace, runNo, snap, ctlVars, pairVars, mainVars, digestVars>>

(* ---------- the resolver called twice in a row on the same tree -------- *)
CallResolverAgain ==
    /\ pc = "resolve_return"
    /\ caller = "unit"
    /\ IF runNo = 1
       THEN pc' = "resolve" /\ runNo' = 2
       ELSE pc' = "done" /\ UNCHANGED runNo
    /\ UNCHANGED <<config, interrupted, files, remote, caller, conflict_files,
                   resolutions, cur, trace, snap, ctlVars, pairVars, mainVars, digestVars>>

(* ------------------------------ the log -------------------------------- *)
\* one line of the log file, by what the parsers' patterns look at:
\*   kind        "transferred" (a "Transferred: d / t, p%" summary line),
\*               "error" (an "ERROR : ..." line), "conflict" (a WARNING
\*               "New or changed in both paths" line)
\*   path        the file the line names, NoPath if none
\*   what        the text after the path
\*   transient   the text ends in EOF, 500, 502, ..., timeout, connection
\*   done, total the two counts of a summary line, pct100 its "100%"
Line(kind, path, what, transient, done, total, pct100) ==
    [kind |-> kind, path |-> path, what |-> what, transient |-> transient,
     done |-> done, total |-> total, pct100 |-> pct100]

\* "Transferred:          2 / 2, 100%"
L_Transferred100 == Line("transferred", NoPath, "Transferred", FALSE, 2, 2, TRUE)
\* "ERROR : dir: Failed to update directory timestamp or metadata: ..."
L_MetadataError ==
    Line("error", NoPath, "Failed to update directory timestamp or metadata",
         FALSE, 0, 0, FALSE)
\* "ERROR : a.txt: Failed to copy: ... unexpected EOF"
L_FailedToCopyEOF(path) == Line("error", path, "Failed to copy", TRUE, 0, 0, FALSE)
\* "ERROR : Bisync aborted. Error is retryable without --resync due to
\*  --resilient mode."
L_RetryableAbort ==
    Line("error", NoPath, "retryable without --resync", FALSE, 0, 0, FALSE)

\* "WARNING : ... New or changed in both paths ...: a.txt"
L_Conflict(path) ==
    Line("conflict", path, "New or changed in both paths", FALSE, 0, 0, FALSE)

\* line 390: error_pattern, the message is the text after "ERROR :"
ErrorMessage(line) == <<line.path, line.what, line.transient>>

\* parse_rclone_output (380-420), the messages of the "error" issues (239):
\* one per matching line, in order
RECURSIVE ParsedErrors(_)
ParsedErrors(lg) ==
    IF lg = <<>> THEN <<>>
    ELSE IF Head(lg).kind = "error"
         THEN <<ErrorMessage(Head(lg))>> \o ParsedErrors(Tail(lg))
         ELSE ParsedErrors(Tail(lg))

\* parse_rclone_output (380-420), the paths of the "conflict" issues (238)
RECURSIVE ParsedConflicts(_)
ParsedConflicts(lg) ==
    IF lg = <<>> THEN <<>>
    ELSE IF Head(lg).kind = "conflict"
         THEN <<Head(lg).path>> \o ParsedConflicts(Tail(lg))
         ELSE ParsedConflicts(Tail(lg))

\* _check_transfers_completed (422-454)
_check_transfers_completed_Never(lg) == FALSE
_check_transfers_completed(lg) ==
    LET transfers_complete ==
            \E i \in 1..Len(lg) :
                /\ lg[i].kind = "transferred" /\ lg[i].pct100
                /\ lg[i].done = lg[i].total /\ lg[i].total > 0
        has_metadata_errors ==
            \E i \in 1..Len(lg) :
                lg[i].what = "Failed to update directory timestamp or metadata"
    IN transfers_complete /\ has_metadata_errors

\* line 464-468: error_pattern of _parse_failed_files
IsTransientFailure(line) ==
    /\ line.kind = "error"
    /\ line.path # NoPath
    /\ line.what \in {"Couldn't move", "Failed to copy", "error copying"}
    /\ line.transient

\* _parse_failed_files (456-481): the paths in order of first appearance
RECURSIVE FailedFilesFrom(_, _)
FailedFilesFrom(lg, failed_files) ==
    IF lg = <<>> THEN failed_files
    ELSE IF IsTransientFailure(Head(lg))
            /\ \A i \in 1..Len(failed_files) : failed_files[i] # Head(lg).path
         THEN FailedFilesFrom(Tail(lg), Append(failed_files, Head(lg).path))
         ELSE FailedFilesFrom(Tail(lg), failed_files)
_parse_failed_files(lg) == FailedFilesFrom(lg, <<>>)

\* _parse_copy_failures (483-503): a set of paths
_parse_copy_failures(lg) ==
    { lg[i].path : i \in { j \in 1..Len(lg) :
          /\ lg[j].kind = "error" /\ lg[j].path # NoPath
          /\ lg[j].what = "Failed to copy" } }

\* list(failed_files): the set in the orders iteration can produce
ListsOf(S) ==
    { q \in [1..Cardinality(S) -> S] : \A x \in S : \E i \in DOMAIN q : q[i] = x }

SyncResult(exit_code, conflicts_found, conflicts_resolved, errors) ==
    [exit_code |-> exit_code, conflicts_found |-> conflicts_found,
     conflicts_resolved |-> conflicts_resolved, errors |-> errors]

\* no SyncResult yet
NoResult == [exit_code |-> None, conflicts_found |-> <<>>,
             conflicts_resolved |-> <<>>, errors |-> <<>>]

\* _is_retryable_error (366-378)
_is_retryable_error_AnyFailure(res) == res.exit_code # EXIT_SUCCESS
_is_retryable_error(res) ==
    \/ res.exit_code = EXIT_RETRYABLE
    \/ /\ res.exit_code = EXIT_CRITICAL
       /\ \E i \in 1..Len(res.errors) :
              res.errors[i][2] = "retryable without --resync"

\* line 353: the retry budget is used up (0 = unlimited)
BudgetExhausted_Never(max_retries, n) == FALSE
BudgetExhausted_OffByOne(max_retries, n) == max_retries > 0 /\ n > max_retries
BudgetExhausted_ZeroIsNone(max_retries, n) == n >= max_retries
BudgetExhausted(max_retries, n) == max_retries > 0 /\ n >= max_retries

\* line 364: the delay slept before the next attempt
SleepDelay_Linear(cfg, n) == cfg.retry_delay * n
SleepDelay(cfg, n) == cfg.retry_delay

\* lines 212-224: where control goes after subprocess.run; the finally
\* clause runs on the normal path and on the exception path alike
AfterLaunch_NoFinally(raised) == IF raised THEN "bisync_return" ELSE "cleanup"
AfterLaunch(raised) == "cleanup"

\* what one run of the sync executable can append to the log
LogBatches ==
    { <<>>,
      <<L_Transferred100, L_MetadataError>>,
      <<L_FailedToCopyEOF(FileA)>>,
      <<L_RetryableAbort>>,
      <<L_Conflict(FileA)>> }

ExitCodes == {EXIT_SUCCESS, EXIT_RETRYABLE, EXIT_USAGE_ERROR, EXIT_CRITICAL}

\* str(e) of the exception subprocess.run raised
LaunchError == <<NoPath, "exception", FALSE>>

resVars == <<conflict_files, resolutions, cur, runNo, snap>>

(* --------------------------- _sync_single_file ------------------------- *)
\* lines 714-733: the direction chosen from the two modification times
SyncDirection(local_mtime, remote_mtime) ==
    IF local_mtime # None /\ (remote_mtime = None \/ local_mtime > remote_mtime)
    THEN "push"
    ELSE IF remote_mtime # None /\ (local_mtime = None \/ remote_mtime > local_mtime)
    THEN "pull"
    ELSE IF local_mtime # None /\ remote_mtime # None
    THEN "equal"
    ELSE "neither"

\* _copy_to_remote (804-842), _copy_from_remote (763-802) and the two
\* "skipped" results of _sync_single_file: the action of the Resolution
CopyAction(direction, dry_run, ok) ==
    IF direction = "push"
    THEN (IF dry_run THEN "would_push" ELSE IF ok THEN "pushed" ELSE "error")
    ELSE IF direction = "pull"
    THEN (IF dry_run THEN "would_pull" ELSE IF ok THEN "pulled" ELSE "error")
    ELSE "skipped"

\* _sync_single_file (701-733) for one file of a per-file loop
SyncSingleFile(file_path, pass) ==
    \E remote_mtime \in RemoteMtimeAnswers(remote, file_path), ok \in BOOLEAN :
        LET local_mtime == IF Exists(files, file_path)
                           THEN files[file_path].mtime ELSE None
            direction == SyncDirection(local_mtime, remote_mtime)
            action == CopyAction(direction, config.dry_run, ok)
        IN /\ retry_results' =
                  Append(retry_results, Resolution(file_path, action, direction))
           /\ files' = LocalAfterCopy(files, remote, file_path, direction, action)
           /\ remote' = IF action = "pushed"
                        THEN PushedRemote(remote, files, file_path) ELSE remote
           /\ trace' = trace
                  \o <<Event("sync_single_file", pass), Event("lsjson", remote_mtime)>>
                  \o (IF action \in {"pushed", "pulled", "error"}
                      THEN <<Event("copyto", direction)>> ELSE <<>>)

(* ------------------------- run_bisync (164-252) ------------------------ *)
\* lines 80-81: the log file, named once in __init__ from the time of
\* construction
log_file == <<"sync-", "20260101-000000", ".log">>

\* lines 173-180: the command line of an attempt names self.log_file;
\* log_start is the number of lines the file holds when the attempt starts
BisyncEvent(who) ==
    [op |-> "bisync", arg |-> who, log_file |-> log_file, log_start |-> Len(log)]

NoProc == [exit_code |-> None, raised |-> FALSE]

\* lines 212-221: subprocess.run returns an exit code, having appended to
\* the log (a run that aborts leaves its lock file behind; a run refused
\* for a usage error transfers nothing and logs none of the lines above),
\* or raises before the executable has run
BisyncLaunch ==
    /\ pc = "bisync"
    /\ \E raised \in BOOLEAN, code \in ExitCodes, batch \in LogBatches :
        /\ raised => (code = EXIT_RETRYABLE /\ batch = <<>>)
        /\ code = EXIT_USAGE_ERROR => batch = <<>>
        /\ Len(log) + Len(batch) <= MaxLogLines
        /\ proc' = [exit_code |-> code, raised |-> raised]
        /\ log' = log \o batch
        /\ lock' = (~raised /\ code = EXIT_CRITICAL)
        /\ pc' = AfterLaunch(raised)
    /\ trace' = Append(trace, BisyncEvent(caller))
    /\ UNCHANGED <<config, interrupted, files, remote, caller, attempt, result,
                   resync_result, returned, queue, retry_results, resVars, pairVars, mainVars, digestVars>>

\* lines 222-224 and 131-139: the finally clause, _cleanup_lock_file
BisyncCleanup ==
    /\ pc = "cleanup"
    /\ lock' = FALSE
    /\ trace' = Append(trace, Event("cleanup_lock", proc.raised))
    /\ pc' = IF proc.raised THEN "bisync_return" ELSE "parse"
    /\ UNCHANGED <<config, interrupted, files, remote, log, caller, attempt,
                   proc, result, resync_result, returned, queue, retry_results,
                   resVars, pairVars, mainVars, digestVars>>

\* line 243: exit_code in (EXIT_SUCCESS, EXIT_RETRYABLE)
RunsResolver_OnlyOnFailure(exit_code) == exit_code = EXIT_RETRYABLE
RunsResolver(exit_code) == exit_code \in {EXIT_SUCCESS, EXIT_RETRYABLE}

\* lines 226-244: the log is parsed; exit codes 0 and 1 go on to the resolver
BisyncParse ==
    /\ pc = "parse"
    /\ pc' = IF RunsResolver(proc.exit_code) THEN "resolve" ELSE "bisync_return"
    /\ UNCHANGED <<config, interrupted, files, remote, lock, log, caller,
                   attempt, proc, result, resync_result, returned, queue,
                   retry_results, trace, resVars, pairVars, mainVars, digestVars>>

\* the SyncResult run_bisync returns (221, 236-244)
BisyncResult ==
    IF proc.raised
    THEN SyncResult(EXIT_RETRYABLE, <<>>, <<>>, <<LaunchError>>)
    ELSE SyncResult(proc.exit_code, ParsedConflicts(log),
                    IF pc = "resolve_return" THEN resolutions ELSE <<>>,
                    ParsedErrors(log))

\* line 252 (or 221) and the caller's assignment: 265, 280-281, 312-313
BisyncReturn ==
    /\ pc \in {"bisync_return", "resolve_return"}
    /\ caller # "unit"
    /\ trace' = Append(trace, Event("exit", BisyncResult.exit_code))
    /\ IF caller = "attempt"
       THEN /\ result' = BisyncResult
            /\ pc' = "evaluate"
            /\ UNCHANGED <<resync_result, config>>
       ELSE /\ resync_result' = BisyncResult
            /\ config' = [config EXCEPT !.resync = FALSE]
            /\ pc' = "after_resync"
            /\ UNCHANGED result
    /\ UNCHANGED <<interrupted, files, remote, lock, log, caller, attempt, proc,
                   returned, queue, retry_results, resVars, pairVars, mainVars, digestVars>>

(* --------------------- run_sync_with_retry (254-364) ------------------- *)
\* the attempts the model lets a run start: one more than the budget (the
\* code returns before), and for unlimited retries MaxUnlimitedAttempts, or
\* one more once the cancellation flag is set
AttemptCap(cfg, flag) ==
    IF cfg.max_retries > 0 THEN cfg.max_retries + 1
    ELSE IF flag THEN MaxUnlimitedAttempts + 1
    ELSE MaxUnlimitedAttempts

\* lines 258-265: the next ordinary attempt
StartAttempt ==
    /\ pc = "loop"
    /\ attempt < AttemptCap(config, interrupted)
    /\ attempt' = attempt + 1
    /\ caller' = "attempt"
    /\ pc' = "bisync"
    /\ UNCHANGED <<config, interrupted, files, remote, lock, log, proc, result,
                   resync_result, returned, queue, retry_results, trace, resVars, pairVars, mainVars, digestVars>>

\* line 272: a critical exit code outside resync mode is recovered from
TriesRecovery_EvenInResync(res, cfg) == res.exit_code = EXIT_CRITICAL
TriesRecovery(res, cfg) == res.exit_code = EXIT_CRITICAL /\ ~cfg.resync

\* lines 267-303: success, or the recovery of a critical attempt
Evaluate ==
    /\ pc = "evaluate"
    /\ IF result.exit_code = EXIT_SUCCESS
       THEN /\ returned' = result
            /\ pc' = "done"
            /\ UNCHANGED <<config, caller, queue, retry_results>>
       ELSE IF TriesRecovery(result, config)
       THEN IF _check_transfers_completed(log)
            THEN /\ config' = [config EXCEPT !.resync = TRUE]
                 /\ caller' = "resync_meta"
                 /\ pc' = "bisync"
                 /\ UNCHANGED <<returned, queue, retry_results>>
            ELSE IF _parse_failed_files(log) # <<>>
            THEN /\ queue' = _parse_failed_files(log)
                 /\ retry_results' = <<>>
                 /\ pc' = "retry_files"
                 /\ UNCHANGED <<config, caller, returned>>
            ELSE /\ pc' = "classify"
                 /\ UNCHANGED <<config, caller, returned, queue, retry_results>>
       ELSE /\ pc' = "classify"
            /\ UNCHANGED <<config, caller, returned, queue, retry_results>>
    /\ UNCHANGED <<interrupted, files, remote, lock, log, attempt, proc, result,
                   resync_result, trace, resVars, pairVars, mainVars, digestVars>>

\* lines 308-309: failures = [r for r in retry_results if r.action == "error"]
NoRetryFailures_Always(results) == TRUE
NoRetryFailures(results) ==
    \A i \in 1..Len(results) : results[i].action # "error"

\* _retry_failed_transfers (685-699), one file per step, and lines 305-331
\* once the loop has ended
RetryFailedTransfer ==
    /\ pc = "retry_files"
    /\ IF queue = <<>> \/ LoopBreaks(interrupted)
       THEN /\ IF caller = "unit"
               THEN /\ pc' = "done"
                    /\ UNCHANGED <<config, caller, returned>>
               ELSE IF NoRetryFailures(retry_results)
               THEN /\ config' = [config EXCEPT !.resync = TRUE]
                    /\ caller' = "resync_files"
                    /\ pc' = "bisync"
                    /\ UNCHANGED returned
               ELSE /\ returned' = result
                    /\ pc' = "done"
                    /\ UNCHANGED <<config, caller>>
            /\ UNCHANGED <<files, remote, queue, retry_results, trace>>
       ELSE /\ SyncSingleFile(Head(queue), "retry")
            /\ queue' = Tail(queue)
            /\ UNCHANGED <<config, caller, returned, pc>>
    /\ UNCHANGED <<interrupted, lock, log, attempt, proc, result, resync_result,
                   resVars, pairVars, mainVars, digestVars>>

\* lines 283-294 and 315-326: after the forced resync
AfterResync ==
    /\ pc = "after_resync"
    /\ IF _parse_copy_failures(log) = {}
       THEN /\ returned' = resync_result
            /\ pc' = "done"
            /\ UNCHANGED <<queue, retry_results>>
       ELSE /\ queue' \in ListsOf(_parse_copy_failures(log))
            /\ retry_results' = <<>>
            /\ pc' = "direct_copy"
            /\ UNCHANGED returned
    /\ UNCHANGED <<config, interrupted, files, remote, lock, log, caller,
                   attempt, proc, result, resync_result, trace, resVars, pairVars, mainVars, digestVars>>

\* _retry_with_direct_copy (505-523), one file per step, and the return that
\* follows the loop (294, 326, 350)
DirectCopy ==
    /\ pc = "direct_copy"
    /\ IF queue = <<>> \/ LoopBreaks(interrupted)
       THEN /\ returned' = IF caller = "unit" THEN returned
                            ELSE IF caller = "attempt" THEN result
                            ELSE resync_result
            /\ pc' = "done"
            /\ UNCHANGED <<files, remote, queue, retry_results, trace>>
       ELSE /\ SyncSingleFile(Head(queue), "direct")
            /\ queue' = Tail(queue)
            /\ UNCHANGED <<returned, pc>>
    /\ UNCHANGED <<config, interrupted, lock, log, caller, attempt, proc, result,
                   resync_result, resVars, pairVars, mainVars, digestVars>>

\* lines 333-360: non-retryable, budget used up, interrupted, or retry
Classify ==
    /\ pc = "classify"
    /\ IF ~_is_retryable_error(result)
       THEN IF _parse_copy_failures(log) = {}
            THEN /\ returned' = result
                 /\ pc' = "done"
                 /\ UNCHANGED <<queue, retry_results>>
            ELSE /\ queue' \in ListsOf(_parse_copy_failures(log))
                 /\ retry_results' = <<>>
                 /\ pc' = "direct_copy"
                 /\ UNCHANGED returned
       ELSE IF BudgetExhausted(config.max_retries, attempt) \/ interrupted
       THEN /\ returned' = result
            /\ pc' = "done"
            /\ UNCHANGED <<queue, retry_results>>
       ELSE /\ pc' = "sleep"
            /\ UNCHANGED <<returned, queue, retry_results>>
    /\ UNCHANGED <<config, interrupted, files, remote, lock, log, caller,
                   attempt, proc, result, resync_result, trace, resVars, pairVars, mainVars, digestVars>>

\* lines 363-364: time.sleep(self.config.retry_delay), then the loop head
Sleep ==
    /\ pc = "sleep"
    /\ trace' = Append(trace, Event("sleep", SleepDelay(config, attempt)))
    /\ pc' = "loop"
    /\ UNCHANGED <<config, interrupted, files, remote, lock, log, caller,
                   attempt, proc, result, resync_result, returned, queue,
                   retry_results, resVars, pairVars, mainVars, digestVars>>

(* ------------------------------ main (961-998) ------------------------ *)
\* lines 988-991: the conflicts the last run reported are retried when the
\* exit code is 0 or 1
MainAfterReturn ==
    /\ pc = "done"
    /\ caller # "unit"
    /\ IF returned.conflicts_found # <<>>
          /\ returned.exit_code \in {EXIT_SUCCESS, EXIT_RETRYABLE}
       THEN /\ queue' = returned.conflicts_found
            /\ retry_results' = <<>>
            /\ pc' = "main_retry"
       ELSE /\ pc' = "exit"
            /\ UNCHANGED <<queue, retry_results>>
    /\ UNCHANGED <<config, interrupted, files, remote, lock, log, caller,
                   attempt, proc, result, resync_result, returned, trace,
                   resVars, pairVars, mainVars, digestVars>>

\* lines 664-677 of retry_failed_files: the direction of the copy
RetryDirection(local_mtime, remote_mtime) ==
    IF local_mtime = None \/ (remote_mtime # None /\ remote_mtime > local_mtime)
    THEN "pull"
    ELSE IF local_mtime # None /\ (remote_mtime = None \/ local_mtime > remote_mtime)
    THEN "push"
    ELSE "equal"

\* retry_failed_files (646-683), one file per step, and line 991 once the
\* loop has ended
RetryFailedFile ==
    /\ pc = "main_retry"
    /\ IF queue = <<>> \/ LoopBreaks(interrupted)
       THEN /\ IF caller = "unit"
               THEN pc' = "done" /\ UNCHANGED returned
               ELSE /\ returned' = [returned EXCEPT
                                      !.conflicts_resolved = @ \o retry_results]
                    /\ pc' = "exit"
            /\ UNCHANGED <<files, remote, queue, retry_results, trace>>
       ELSE \E remote_mtime \in RemoteMtimeAnswers(remote, Head(queue)),
               ok \in BOOLEAN :
            LET file_path == Head(queue)
                local_mtime == IF Exists(files, file_path)
                               THEN files[file_path].mtime ELSE None
                direction == RetryDirection(local_mtime, remote_mtime)
                action == CopyAction(direction, config.dry_run, ok)
            IN /\ queue' = Tail(queue)
               /\ UNCHANGED <<returned, pc>>
               /\ IF remote_mtime = None
                  THEN /\ trace' = trace \o <<Event("retry_failed_file", file_path),
                                               Event("lsjson", remote_mtime)>>
                       /\ UNCHANGED <<files, remote, retry_results>>
                  ELSE /\ retry_results' =
                              Append(retry_results,
                                     Resolution(file_path, action, direction))
                       /\ files' = LocalAfterCopy(files, remote, file_path,
                                                   direction, action)
                       /\ remote' = IF action = "pushed"
                                    THEN PushedRemote(remote, files, file_path)
                                    ELSE remote
                       /\ trace' = trace
                              \o <<Event("retry_failed_file", file_path),
                                   Event("lsjson", remote_mtime)>>
                              \o (IF action \in {"pushed", "pulled", "error"}
                                  THEN <<Event("copyto", direction)>> ELSE <<>>)
    /\ UNCHANGED <<config, interrupted, lock, log, caller, attempt, proc, result,
                   resync_result, resVars, pairVars, mainVars, digestVars>>

(* -------------- several managers on one local/remote pair ------------- *)
\* each manager is a process of its own (main, 961-998) and computes the same
\* lock file path for the pair (118-129)
Managers == 1..NumManagers
NoOwner == 0

PairIdle ==
    /\ mgr_pc = [m \in Managers |-> "idle"]
    /\ mgr_attempt = [m \in Managers |-> 0]
    /\ mgr_exit = [m \in Managers |-> None]
    /\ lock_owner = NoOwner

\* main (961-984): a manager is started at any time
PairStart ==
    \E m \in Managers :
        /\ mgr_pc[m] = "idle"
        /\ mgr_pc' = [mgr_pc EXCEPT ![m] = "loop"]
        /\ UNCHANGED <<mgr_attempt, mgr_exit, lock_owner, runVars, mainVars, digestVars>>

\* lines 258-265 and 212-217: the next attempt starts the sync subprocess,
\* which writes the pair's lock file and runs, or finds a lock file and
\* exits at once with an error code
PairLaunch ==
    \E m \in Managers, refusal \in {EXIT_RETRYABLE, EXIT_CRITICAL} :
        /\ mgr_pc[m] = "loop"
        /\ mgr_attempt' = [mgr_attempt EXCEPT ![m] = @ + 1]
        /\ IF lock_owner = NoOwner
           THEN /\ lock_owner' = m
                /\ mgr_pc' = [mgr_pc EXCEPT ![m] = "running"]
                /\ UNCHANGED mgr_exit
           ELSE /\ mgr_exit' = [mgr_exit EXCEPT ![m] = refusal]
                /\ mgr_pc' = [mgr_pc EXCEPT ![m] = "cleanup"]
                /\ UNCHANGED lock_owner
        /\ UNCHANGED <<runVars, mainVars, digestVars>>

\* line 218: the running subprocess exits; it removes its own lock file
\* unless it aborts with the critical code
PairExit ==
    \E m \in Managers, code \in ExitCodes :
        /\ mgr_pc[m] = "running"
        /\ mgr_exit' = [mgr_exit EXCEPT ![m] = code]
        /\ lock_owner' = IF lock_owner = m /\ code # EXIT_CRITICAL
                         THEN NoOwner ELSE lock_owner
        /\ mgr_pc' = [mgr_pc EXCEPT ![m] = "cleanup"]
        /\ UNCHANGED <<mgr_attempt, runVars, mainVars, digestVars>>

\* lines 222-224 and 131-139: the finally clause deletes the lock file if
\* it exists; then lines 267-364: exit code 1 is retried within the budget
PairCleanup ==
    \E m \in Managers :
        /\ mgr_pc[m] = "cleanup"
        /\ lock_owner' = NoOwner
        /\ mgr_pc' = [mgr_pc EXCEPT ![m] =
                IF /\ mgr_exit[m] = EXIT_RETRYABLE
                   /\ ~BudgetExhausted(DefaultMaxRetries, mgr_attempt[m])
                THEN "loop" ELSE "done"]
        /\ UNCHANGED <<mgr_attempt, mgr_exit, runVars, mainVars, digestVars>>

(* ------------------------ main as a whole (961-998) -------------------- *)
\* names in the log directory: prefix, stamp, extension
OldStamps == <<"20250101-000000", "20250102-000000", "20250103-000000",
               "20250104-000000">>
OldLogs == {<<"sync-", OldStamps[i], ".log">> : i \in 1..MaxOldLogs}
OtherFile == <<"notes", "", ".txt">>
summary_file == <<"last-sync-summary", "", ".json">>

\* line 847: self.config.log_dir.glob("sync-*.log")
MatchesLogGlob(name) == name[1] = "sync-" /\ name[3] = ".log"

\* the modification time of a file written during the run
Now == MaxTime

NoDir == [exists |-> FALSE, files |-> [n \in {} |-> 0]]

\* the log directory before the run: absent, or holding logs of earlier
\* runs and possibly a file that is not a log
InitialLogDirs ==
    {NoDir} \cup
    { [exists |-> TRUE, files |-> f] :
        f \in UNION { {g \in [S -> Times] : OtherFile \in S => g[OtherFile] = 1} :
                        S \in SUBSET (OldLogs \cup {OtherFile}) } }

\* --max-logs
MaxLogsValues == {-1, 0, 1, 2}

\* a file is created or rewritten in the directory
WithFile(dir, name, mtime) ==
    [exists |-> TRUE,
     files |-> [n \in DOMAIN dir.files \cup {name} |->
                  IF n = name THEN mtime ELSE dir.files[n]]]

\* _validate_config (93-110): no error was collected
ValidConfig(in) == in.local_ok /\ in.filter_ok /\ in.rclone_ok

MainIdle ==
    /\ main_pc = "idle"
    /\ main_in = [local_ok |-> TRUE, filter_ok |-> TRUE, rclone_ok |-> TRUE,
                  max_logs |-> 0, dir0 |-> NoDir]
    /\ log_dir = NoDir
    /\ summary = <<>>
    /\ main_result = NoResult
    /\ main_status = None
    /\ main_trace = <<>>

\* lines 963-977: the command line is parsed into the SyncConfig; the
\* paths it names exist or not, the log directory is in some state
MainStart ==
    /\ main_pc = "idle"
    /\ \E local_ok \in BOOLEAN, filter_ok \in BOOLEAN, rclone_ok \in BOOLEAN,
          max_logs \in MaxLogsValues, dir \in InitialLogDirs :
          /\ main_in' = [local_ok |-> local_ok, filter_ok |-> filter_ok,
                         rclone_ok |-> rclone_ok, max_logs |-> max_logs,
                         dir0 |-> dir]
          /\ log_dir' = dir
    /\ main_pc' = "start"
    /\ UNCHANGED <<summary, main_result, main_status, main_trace, runVars,
                   pairVars, digestVars>>

\* lines 979-983 and __init__ (78-86): the log directory is made, the log
\* file is named and opened by the file handler of the logger, the signal
\* handler is installed, and only then the configuration is validated; a
\* ValueError makes main return 2
MainConstruct ==
    /\ main_pc = "start"
    /\ log_dir' = WithFile(log_dir, log_file, Now)
    /\ main_trace' = main_trace \o <<Event("mkdir", log_dir.exists),
                                      Event("open_log", log_file)>>
    /\ IF ValidConfig(main_in)
       THEN /\ main_pc' = "constructed"
            /\ UNCHANGED main_status
       ELSE /\ main_pc' = "exit"
            /\ main_status' = 2
    /\ UNCHANGED <<main_in, summary, main_result, runVars, pairVars, digestVars>>

\* line 986: result = manager.run_sync_with_retry(), whatever it returns
MainRun ==
    /\ main_pc = "constructed"
    /\ \E code \in ExitCodes, found \in {<<>>, <<FileA>>},
          resolved \in {<<>>, <<Resolution(FileA, "kept_local", "resolved")>>} :
          /\ main_result' = SyncResult(code, found, resolved, <<>>)
          /\ main_trace' = Append(main_trace, Event("run_sync_with_retry", code))
    /\ main_pc' = "ran"
    /\ UNCHANGED <<main_in, log_dir, summary, main_status, runVars, pairVars, digestVars>>

\* lines 988-991: the conflicts found are retried after exit codes 0 and 1
\* and what retry_failed_files returns is appended
MainRetry ==
    /\ main_pc = "ran"
    /\ IF /\ main_result.conflicts_found # <<>>
          /\ main_result.exit_code \in {0, 1}
       THEN \E retry_results_ \in
                 {<<>>} \cup {<<Resolution(FileA, a, "retry")>> :
                                a \in {"pushed", "pulled", "skipped", "error"}} :
            /\ main_result' = [main_result EXCEPT
                                  !.conflicts_resolved = @ \o retry_results_]
            /\ main_trace' = Append(main_trace,
                                    Event("retry_failed_files", Len(retry_results_)))
       ELSE UNCHANGED <<main_result, main_trace>>
    /\ main_pc' = "retried"
    /\ UNCHANGED <<main_in, log_dir, summary, main_status, runVars, pairVars, digestVars>>

\* write_summary (859-879), called at line 994: the summary is written to
\* the fixed file, or the write raises, which is logged and ignored
MainWriteSummary ==
    /\ main_pc = "retried"
    /\ \E ok \in BOOLEAN :
          /\ summary' = IF ok
                        THEN Append(summary,
                               [exit_code |-> main_result.exit_code,
                                conflicts_found |-> main_result.conflicts_found,
                                conflicts_resolved |-> main_result.conflicts_resolved,
                                errors |-> main_result.errors,
                                log_file |-> log_file])
                        ELSE summary
          /\ log_dir' = IF ok THEN WithFile(log_dir, summary_file, Now)
                        ELSE log_dir
          /\ main_trace' = Append(main_trace, Event("write_summary", ok))
    /\ main_pc' = "summarised"
    /\ UNCHANGED <<main_in, main_result, main_status, runVars, pairVars, digestVars>>

\* lines 846-850: sorted(..., key=mtime, reverse=True); files of equal
\* time come in the order the directory listing gave them
OldestFirst(dir, order) ==
    \A i, j \in 1..Len(order) :
        i < j => dir.files[order[i]] <= dir.files[order[j]]
NewestFirst(dir, order) ==
    \A i, j \in 1..Len(order) :
        i < j => dir.files[order[i]] >= dir.files[order[j]]

\* the orders sorted() can return for the logs of the directory
SortedLogs(dir) ==
    LET logs == {n \in DOMAIN dir.files : MatchesLogGlob(n)}
        k == Cardinality(logs)
    IN {order \in [1..k -> logs] :
          /\ \A i, j \in 1..k : i # j => order[i] # order[j]
          /\ NewestFirst(dir, order)}

\* line 852: log_files[self.config.max_logs:], the first index sliced off
SliceStart(len, max_logs) ==
    IF max_logs >= 0
    THEN (IF max_logs < len THEN max_logs ELSE len)
    ELSE (IF len + max_logs > 0 THEN len + max_logs ELSE 0)

\* rotate_logs (844-857), called at line 995: every log beyond the cap is
\* unlinked; an unlink that raises is logged and the loop goes on
MainRotate ==
    /\ main_pc = "summarised"
    /\ \E log_files \in SortedLogs(log_dir) :
          LET old == {log_files[i] :
                        i \in (SliceStart(Len(log_files), main_in.max_logs) + 1)
                                ..Len(log_files)}
          IN \E failed \in SUBSET old :
               /\ log_dir' = [log_dir EXCEPT !.files =
                     [n \in DOMAIN log_dir.files \ (old \ failed) |->
                         log_dir.files[n]]]
               /\ main_trace' = Append(main_trace, Event("rotate_logs", failed))
    /\ main_pc' = "rotated"
    /\ UNCHANGED <<main_in, summary, main_result, main_status, runVars,
                   pairVars, digestVars>>

\* line 997: return result.exit_code
ExitStatus_AlwaysZero(res) == 0
ExitStatus(res) == res.exit_code

MainReturn ==
    /\ main_pc = "rotated"
    /\ main_status' = ExitStatus(main_result)
    /\ main_pc' = "exit"
    /\ UNCHANGED <<main_in, log_dir, summary, main_result, main_trace, runVars,
                   pairVars, digestVars>>

(* ---------- extract_log_digest (telegram_bots/rclone_log_analyze.py) --- *)
\* a line of the log, by what lines 278-280 look at:
\*   marker   " ERROR " in line or "ERROR:" in line
\*   match    RE_ERROR_TEXT.search(line) found a text after the marker
\*   text     that text, stripped
\*   pad      the line carries blanks around the text, which strip() drops
\* and by what lines 333-334 look at:
\*   skip     "files" or "dirs" if "not deleting" and "IO errors" are in the
\*            line ("not deleting files" or not), "" otherwise
\* texts are numbered in the order of their first occurrence in the log:
\* a line repeats a text read before or brings the next new one; the two
\* "not deleting ... as there were IO errors" texts have numbers of their own
NotDeletingFilesText == 101
NotDeletingDirsText == 102

DigestLines(seen, with_skips) ==
    {[marker |-> FALSE, match |-> FALSE, text |-> 0, pad |-> FALSE, skip |-> ""],
     [marker |-> TRUE, match |-> FALSE, text |-> 0, pad |-> FALSE, skip |-> ""]}
    \cup {[marker |-> TRUE, match |-> TRUE, text |-> t, pad |-> pad, skip |-> ""] :
            t \in 1..(Cardinality(seen \ {NotDeletingFilesText,
                                          NotDeletingDirsText}) + 1),
            pad \in BOOLEAN}
    \cup {[marker |-> marker, match |-> marker,
           text |-> IF ~marker THEN 0
                    ELSE IF key = "files" THEN NotDeletingFilesText
                    ELSE NotDeletingDirsText,
           pad |-> FALSE, skip |-> key] :
            marker \in (IF with_skips THEN BOOLEAN ELSE {}),
            key \in {"files", "dirs"}}

\* lines 333-335: the entry of a protective-skip line
SkipEntry(line) == <<"Skipped deleting", line.skip, "due to IO errors">>

\* lines 336-338: folders_not_deleted after the line (the set
\* folders_not_deleted_seen holds the entries of the list)
FoldersAfter(folders, line) ==
    IF line.skip # "" /\ \A i \in 1..Len(folders) : folders[i] # SkipEntry(line)
    THEN Append(folders, SkipEntry(line))
    ELSE folders

\* line 280: err_text = m.group(1).strip()
err_text(line) == line.text

\* line 281: the text is new and the list is not full
AppendsError_NoDeduplication(text, seen, errors) == Len(errors) < MAX_ERRORS
AppendsError(text, seen, errors) ==
    text \notin seen /\ Len(errors) < MAX_ERRORS

DigestIdle ==
    /\ digest_pc = "idle"
    /\ digest_errors = <<>>
    /\ errors_seen = {}
    /\ digest_read = 0
    /\ digest_skipped = 0
    /\ folders_not_deleted = <<>>

\* lines 231-247: the digest is created and the log file opened
DigestOpen ==
    /\ digest_pc = "idle"
    /\ digest_pc' = "reading"
    /\ UNCHANGED <<digest_errors, errors_seen, digest_read, digest_skipped,
                   folders_not_deleted, runVars, pairVars, mainVars>>

\* lines 247-338: one line of the loop, as far as the errors and the
\* protective skips are concerned
DigestLine ==
    /\ digest_pc = "reading"
    /\ digest_read < (IF folders_not_deleted = <<>>
                      THEN MaxDigestLines ELSE MaxSkipLogLines)
    /\ digest_read' = digest_read + 1
    /\ \E line \in DigestLines(errors_seen, digest_read < MaxSkipLogLines) :
          /\ folders_not_deleted' = FoldersAfter(folders_not_deleted, line)
          /\ IF line.marker /\ line.match
             THEN IF AppendsError(err_text(line), errors_seen, digest_errors)
                  THEN /\ errors_seen' = errors_seen \cup {err_text(line)}
                       /\ digest_errors' = Append(digest_errors, err_text(line))
                       /\ UNCHANGED digest_skipped
                  ELSE /\ digest_skipped' = digest_skipped + 1
                       /\ UNCHANGED <<digest_errors, errors_seen>>
             ELSE UNCHANGED <<digest_errors, errors_seen, digest_skipped>>
    /\ UNCHANGED <<digest_pc, runVars, pairVars, mainVars>>

\* the end of the file: the loop ends and the digest is returned
DigestReturn ==
    /\ digest_pc = "reading"
    /\ digest_pc' = "returned"
    /\ UNCHANGED <<digest_errors, errors_seen, digest_read, digest_skipped,
                   folders_not_deleted, runVars, pairVars, mainVars>>

(* ----------------------------- initial trees --------------------------- *)
\* an original with two numbered markers (--conflict-loser num), a name the
\* glob finds but the regular expression cannot parse, and a file kept by an
\* earlier equal-timestamp resolution of the same day
FamilyA == {FileA, <<"a", "txt", "conflict1">>, <<"a", "txt", "conflict2">>,
            <<"a", "conflict1", "txt">>, <<"a", "local-20260101", "txt">>}
\* an original without extension and its marker
FamilyB == {FileB, <<"b", "conflict1">>}
\* the files whose modification time the resolver can come to read
Compared == {FileA, <<"a", "txt", "conflict1">>, <<"a", "txt", "conflict2">>,
             FileB, <<"b", "conflict1">>}

\* every file holds its own content, named after the file's first name
LocalTrees(family) ==
    { [n \in S |-> [content |-> n, mtime |-> m[n]]] :
        S \in SUBSET family,
        m \in { f \in [family -> Times] :
                  \A n \in family \ Compared : f[n] = 1 } }

RemoteTrees(paths) ==
    UNION { { [p \in S |-> [content |-> <<"remote">> \o p, mtime |-> m[p]]] :
                m \in [S -> Times] } : S \in SUBSET paths }

InitIdle ==
    /\ interrupted = FALSE
    /\ lock = FALSE
    /\ log = <<>>
    /\ attempt = 0
    /\ proc = NoProc
    /\ result = NoResult
    /\ resync_result = NoResult
    /\ returned = NoResult
    /\ queue = <<>>
    /\ retry_results = <<>>
    /\ conflict_files = {}
    /\ resolutions = <<>>
    /\ cur = NoConflict
    /\ trace = <<>>
    /\ runNo = 1
    /\ PairIdle
    /\ MainIdle
    /\ DigestIdle

\* resolve_remaining_conflicts called on any tree of either family
InitResolve ==
    /\ InitIdle
    /\ pc = "resolve"
    /\ caller = "unit"
    /\ \E dry_run \in BOOLEAN :
         config = [dry_run |-> dry_run, resync |-> FALSE,
                   max_retries |-> DefaultMaxRetries,
                   retry_delay |-> DefaultRetryDelay]
    /\ \E family \in {FamilyA, FamilyB} :
         /\ files \in LocalTrees(family)
         /\ remote \in RemoteTrees(family \cap {FileA, FileB})
    /\ snap = [start |-> files, before |-> files, prev |-> <<>>, left |-> {}]

NextResolve ==
    \/ ResolveEnter
    \/ ResolveNext
    \/ ResolveApply
    \/ Interrupt
    \/ CallResolverAgain

SpecResolve == InitResolve /\ [][NextResolve]_vars

\* the local trees with the subdirectory d: d/c.txt only inside d
CopyLocalTrees ==
    { [n \in S |-> IF n = DirD THEN DirEntry ELSE [content |-> n, mtime |-> m[n]]] :
        S \in {T \in SUBSET {FileA, DirD, FileC} : FileC \in T => DirD \in T},
        m \in [{FileA, FileC} -> Times] }

\* a per-file loop called on its own with a list of paths: _retry_failed_transfers
\* (685), _retry_with_direct_copy (505) or retry_failed_files (646)
CallRetryLoop ==
    /\ pc = "copy_unit"
    /\ pc' \in {"retry_files", "direct_copy", "main_retry"}
    /\ \E S \in SUBSET {FileA, FileC} : queue' \in ListsOf(S)
    /\ retry_results' = <<>>
    /\ UNCHANGED <<config, interrupted, files, remote, lock, log, caller,
                   attempt, proc, result, resync_result, returned, trace,
                   resVars, pairVars, mainVars, digestVars>>

InitCopy ==
    /\ InitIdle
    /\ pc = "copy_unit"
    /\ caller = "unit"
    /\ \E dry_run \in BOOLEAN :
         config = [dry_run |-> dry_run, resync |-> FALSE,
                   max_retries |-> DefaultMaxRetries,
                   retry_delay |-> DefaultRetryDelay]
    /\ files \in CopyLocalTrees
    /\ remote \in RemoteTrees({FileA, FileC})
    /\ snap = [start |-> files, before |-> files, prev |-> <<>>, left |-> {}]

NextCopy ==
    \/ CallRetryLoop
    \/ RetryFailedTransfer
    \/ DirectCopy
    \/ RetryFailedFile
    \/ Interrupt

SpecCopy == InitCopy /\ [][NextCopy]_vars

\* the managers of one pair, each started by its own invocation of main
InitPair ==
    /\ InitIdle
    /\ pc = "pair"
    /\ caller = "pair"
    /\ config = [dry_run |-> FALSE, resync |-> FALSE,
                 max_retries |-> DefaultMaxRetries,
                 retry_delay |-> DefaultRetryDelay]
    /\ files = [n \in {} |-> n]
    /\ remote = [n \in {} |-> n]
    /\ snap = [start |-> files, before |-> files, prev |-> <<>>, left |-> {}]

NextPair ==
    \/ PairStart
    \/ PairLaunch
    \/ PairExit
    \/ PairCleanup

SpecPair == InitPair /\ [][NextPair]_vars

\* one invocation of main from the command line to its exit status
InitMain ==
    /\ InitIdle
    /\ pc = "main"
    /\ caller = "main"
    /\ config = [dry_run |-> FALSE, resync |-> FALSE,
                 max_retries |-> DefaultMaxRetries,
                 retry_delay |-> DefaultRetryDelay]
    /\ files = [n \in {} |-> n]
    /\ remote = [n \in {} |-> n]
    /\ snap = [start |-> files, before |-> files, prev |-> <<>>, left |-> {}]

NextMain ==
    \/ MainStart
    \/ MainConstruct
    \/ MainRun
    \/ MainRetry
    \/ MainWriteSummary
    \/ MainRotate
    \/ MainReturn

SpecMain == InitMain /\ [][NextMain]_vars

\* one call of extract_log_digest
InitDigest ==
    /\ InitIdle
    /\ pc = "digest"
    /\ caller = "digest"
    /\ config = [dry_run |-> FALSE, resync |-> FALSE,
                 max_retries |-> DefaultMaxRetries,
                 retry_delay |-> DefaultRetryDelay]
    /\ files = [n \in {} |-> n]
    /\ remote = [n \in {} |-> n]
    /\ snap = [start |-> files, before |-> files, prev |-> <<>>, left |-> {}]

NextDigest ==
    \/ DigestOpen
    \/ DigestLine
    \/ DigestReturn

SpecDigest == InitDigest /\ [][NextDigest]_vars

\* the command lines the model tries: every --max-retries from 0 to the
\* default with the other options at their defaults, and --dry-run (with
\* --retry-delay 0) and --resync with --max-retries 1 and 2
DefaultOptions ==
    [dry_run |-> FALSE, resync |-> FALSE, retry_delay |-> DefaultRetryDelay]
OtherOptions ==
    { [dry_run |-> TRUE, resync |-> FALSE, retry_delay |-> 0],
      [dry_run |-> FALSE, resync |-> TRUE, retry_delay |-> DefaultRetryDelay] }
CommandLines ==
    { [options |-> DefaultOptions, max_retries |-> n] : n \in 0..DefaultMaxRetries }
    \cup { [options |-> o, max_retries |-> n] : o \in OtherOptions, n \in 1..2 }

\* the local trees a run starts on: a.txt is in conflict or absent locally;
\* the longest runs (unlimited retries, the default budget) start on the
\* empty tree only
InitialTrees(max_retries) ==
    IF max_retries \in {0, DefaultMaxRetries}
    THEN {{}}
    ELSE {{}, {FileA, <<"a", "txt", "conflict1">>}}

\* main (960-984): the manager is built from the command line, then
\* run_sync_with_retry is called
Init ==
    /\ InitIdle
    /\ pc = "loop"
    /\ caller = "attempt"
    /\ \E c \in CommandLines :
         config = [dry_run |-> c.options.dry_run, resync |-> c.options.resync,
                   max_retries |-> c.max_retries,
                   retry_delay |-> c.options.retry_delay]
    /\ files \in { [n \in S |-> [content |-> n, mtime |-> 1]] :
                     S \in InitialTrees(config.max_retries) }
    /\ remote = [p \in {FileA} |-> [content |-> <<"remote">> \o p, mtime |-> 2]]
    /\ snap = [start |-> files, before |-> files, prev |-> <<>>, left |-> {}]

Next ==
    \/ StartAttempt
    \/ BisyncLaunch
    \/ BisyncCleanup
    \/ BisyncParse
    \/ BisyncReturn
    \/ Evaluate
    \/ RetryFailedTransfer
    \/ AfterResync
    \/ DirectCopy
    \/ Classify
    \/ Sleep
    \/ MainAfterReturn
    \/ RetryFailedFile
    \/ ResolveEnter
    \/ ResolveNext
    \/ ResolveApply
    \/ Interrupt

Spec == Init /\ [][Next]_vars

\* the steps of the manager's own thread: every subprocess call returns and
\* the thread goes on to its next statement
ManagerStep ==
    \/ StartAttempt
    \/ BisyncLaunch
    \/ BisyncCleanup
    \/ BisyncParse
    \/ BisyncReturn
    \/ Evaluate
    \/ RetryFailedTransfer
    \/ AfterResync
    \/ DirectCopy
    \/ Classify
    \/ Sleep
    \/ MainAfterReturn
    \/ RetryFailedFile
    \/ ResolveEnter
    \/ ResolveNext
    \/ ResolveApply

\* the runs followed to their end: unlimited retries and a budget of one
\* attempt, with each set of options
InitLive == Init /\ config.max_retries <= 1

\* the same run, in which the manager's thread is never stopped for ever
SpecLive == InitLive /\ [][Next]_vars /\ WF_vars(ManagerStep)

(* ============================ the resolver ============================= *)
\* one conflict is being decided by the real (not dry-run) branch
RealResolution ==
    /\ pc = "resolve_apply"
    /\ pc' = "resolve_loop"
    /\ ~config.dry_run
    /\ Exists(files, cur.original_file)
    /\ Exists(files, cur.conflict_file)

Recorded(action) ==
    /\ Len(resolutions') = Len(resolutions) + 1
    /\ Last(resolutions').action = action
    /\ Last(resolutions').path = cur.original_file

\* C5: when the original exists and its local modification time is strictly
\* greater than the remote one just queried, a real resolution deletes the
\* marker, leaves the original (and every other file) as it was, and records
\* kept_local.
C5_LocalNewerKeepsLocal ==
    [][ (RealResolution /\ cur.local_mtime_ns > cur.remote_mtime_ns)
        => /\ ~Exists(files', cur.conflict_file)
           /\ DOMAIN files' = DOMAIN files \ {cur.conflict_file}
           /\ \A n \in DOMAIN files' : files'[n] = files[n]
           /\ Recorded("kept_local") ]_vars

C5_Witness ==
    /\ pc = "resolve_loop"
    /\ resolutions # <<>>
    /\ Last(resolutions).action = "kept_local"
    /\ Exists(files, Last(resolutions).path)

\* C6: when the original exists and the remote modification time is strictly
\* greater than the local one, after a real resolution the original path
\* holds the marker's content, the marker is gone and kept_remote is
\* recorded.
C6_RemoteNewerKeepsRemote ==
    [][ (RealResolution /\ cur.remote_mtime_ns > cur.local_mtime_ns)
        => /\ Exists(files', cur.original_file)
           /\ files'[cur.original_file] = files[cur.conflict_file]
           /\ ~Exists(files', cur.conflict_file)
           /\ Recorded("kept_remote") ]_vars

C6_Witness ==
    /\ pc = "resolve_loop"
    /\ resolutions # <<>>
    /\ Last(resolutions).action = "kept_remote"
    /\ Exists(files, Last(resolutions).path)
    /\ files[Last(resolutions).path].content # Last(resolutions).path

\* the markers of an original that a listing of the tree finds
MarkersOf(fs, original) ==
    {m \in conflict_glob(fs) : _get_original_from_conflict(m) = original}

\* C7: with equal local and remote modification times a real resolution
\* leaves exactly the two disambiguated files (stem.local-date.ext with the
\* local content, stem.remote-date.ext with the marker's content), nothing
\* under the original or the marker name, and records kept_both; and a
\* second call of resolve_remaining_conflicts after a completed first call
\* (every remote query answered) finds no marker of a conflict that was
\* resolved as kept_both.
C7_EqualKeepsBothAndRerunFindsNone ==
    [][ /\ (RealResolution /\ cur.remote_mtime_ns = cur.local_mtime_ns)
           => /\ Exists(files', local_name(cur.original_file))
              /\ files'[local_name(cur.original_file)] = files[cur.original_file]
              /\ Exists(files', remote_name(cur.original_file))
              /\ files'[remote_name(cur.original_file)] = files[cur.conflict_file]
              /\ ~Exists(files', cur.original_file)
              /\ ~Exists(files', cur.conflict_file)
              /\ Recorded("kept_both")
        /\ (pc = "resolve" /\ pc' = "resolve_loop" /\ runNo = 2
              /\ conflict_files = {} /\ ~config.dry_run
              /\ \A i \in 1..Len(trace) :
                    trace[i].op = "lsjson" => trace[i].arg # None)
           => \A i \in 1..Len(resolutions) :
                 resolutions[i].action = "kept_both"
                 => MarkersOf(files, resolutions[i].path) \cap conflict_files' = {}
      ]_vars

\* C8: with dry_run set, resolve_remaining_conflicts leaves the local tree
\* as it found it and starts no copy, whatever the markers, originals and
\* modification times.
C8_DryRunMutatesNothing ==
    (config.dry_run /\ caller = "unit")
    => /\ files = snap.start
       /\ \A i \in 1..Len(trace) : trace[i].op # "copyto"

C8_Witness ==
    /\ config.dry_run
    /\ caller = "unit"
    /\ pc = "resolve_return"
    /\ Len(resolutions) >= 2
    /\ \E i \in 1..Len(resolutions) : resolutions[i].action = "would_keep_local"

\* every marker the previous call found had a parsable name and an existing
\* original, every remote query of the run was answered, and the previous
\* call visited every marker (it was not interrupted)
PreviousCallResolvable ==
    /\ \A m \in conflict_glob(snap.before) :
          /\ _get_original_from_conflict(m) # NoPath
          /\ Exists(snap.before, _get_original_from_conflict(m))
    /\ \A i \in 1..Len(trace) : trace[i].op = "lsjson" => trace[i].arg # None
    /\ snap.left = {}

\* C9: after a real resolve_remaining_conflicts call that ran to completion,
\* an immediate second call finds no conflict-marker file, records no
\* resolution and changes nothing in the tree (stated for first calls in
\* which every marker was resolvable).
C9_SecondRunIsNoOp ==
    (runNo = 2 /\ caller = "unit" /\ pc # "resolve" /\ ~config.dry_run
       /\ PreviousCallResolvable)
    => /\ conflict_glob(snap.start) = {}
       /\ resolutions = <<>>
       /\ files = snap.start

(* =========================== the controller ============================ *)
\* positions in the history of the operations of a given kind
Ops(t, op) == {i \in 1..Len(t) : t[i].op = op}
\* the whole-sync runs started by the loop, and the forced --resync runs
OrdinaryAttempts(t) == {i \in Ops(t, "bisync") : t[i].arg = "attempt"}
ForcedResyncs(t) == {i \in Ops(t, "bisync") : t[i].arg # "attempt"}
\* individual-file retries of the transient-failure pass
IndividualRetries(t) == {i \in Ops(t, "sync_single_file") : t[i].arg = "retry"}

\* the log holds a 100% transfer summary, a metadata-update error, and no
\* error line of another kind
MetadataErrorsOnly(lg) ==
    /\ \E i \in 1..Len(lg) :
          /\ lg[i].kind = "transferred" /\ lg[i].pct100
          /\ lg[i].done = lg[i].total /\ lg[i].total > 0
    /\ \E i \in 1..Len(lg) : lg[i] = L_MetadataError
    /\ \A i \in 1..Len(lg) : lg[i].kind = "error" => lg[i] = L_MetadataError

\* C1: when an attempt outside resync mode has returned exit code 7 and the
\* log shows complete transfers with metadata-update errors only, the next
\* step of the controller starts the forced --resync run, with no
\* individual-file retry before it; on that path no individual retry is
\* ever made, no whole-sync run follows the forced one, and the run ends by
\* returning the forced run's result.
C1_MetadataOnlyForcesOneResync ==
    [][ /\ (/\ pc = "evaluate" /\ pc' # pc
            /\ result.exit_code = EXIT_CRITICAL /\ ~config.resync
            /\ MetadataErrorsOnly(log))
           => /\ pc' = "bisync" /\ caller' = "resync_meta"
              /\ config'.resync
              /\ trace' = trace
        /\ caller' = "resync_meta"
           => /\ IndividualRetries(trace') = {}
              /\ Cardinality(ForcedResyncs(trace')) <= 1
              /\ \A i \in ForcedResyncs(trace'), j \in Ops(trace', "bisync") : j <= i
              /\ pc' = "done"
                 => /\ Cardinality(ForcedResyncs(trace')) = 1
                    /\ returned' = resync_result'
      ]_vars

C1_Witness ==
    /\ pc = "after_resync"
    /\ caller = "resync_meta"
    /\ MetadataErrorsOnly(log)
    /\ Cardinality(ForcedResyncs(trace)) = 1

\* every whole-sync run so far returned this exit code
AllExits(code) ==
    /\ Ops(trace, "exit") # {}
    /\ \A i \in Ops(trace, "exit") : trace[i].arg = code

\* C2: with max_retries = N > 0, no interrupt and exit code 1 from every
\* attempt, run_sync_with_retry returns after exactly N whole-sync runs, and
\* what it returns is the result of the N-th.
C2_GivesUpAfterNAttempts ==
    (pc = "done" /\ config.max_retries > 0 /\ ~interrupted
       /\ AllExits(EXIT_RETRYABLE))
    => /\ attempt = config.max_retries
       /\ Cardinality(Ops(trace, "bisync")) = config.max_retries
       /\ Cardinality(Ops(trace, "exit")) = config.max_retries
       /\ returned = result
       /\ returned.exit_code = EXIT_RETRYABLE

C2_Witness ==
    /\ pc = "done"
    /\ config.max_retries = DefaultMaxRetries
    /\ ~interrupted
    /\ AllExits(EXIT_RETRYABLE)
    /\ attempt = DefaultMaxRetries

\* C3 as claimed: with max_retries = 0 the run returns only on success, on
\* a non-retryable result, or when interrupted.
C3_UnlimitedReturnsOnlyOnSuccessFatalOrInterrupt ==
    (pc = "done" /\ config.max_retries = 0)
    => \/ returned.exit_code = EXIT_SUCCESS
       \/ ~_is_retryable_error(returned)
       \/ interrupted

\* the run ended in the recovery of a critical attempt: with the forced
\* resync's result, or with the critical result after an individual-file
\* retry that failed
RecoveryEndedRun ==
    /\ result.exit_code = EXIT_CRITICAL
    /\ \/ caller \in {"resync_meta", "resync_files"} /\ returned = resync_result
       \/ /\ caller = "attempt" /\ returned = result
          /\ IndividualRetries(trace) # {}
          /\ \E i \in 1..Len(retry_results) : retry_results[i].action = "error"

\* C3 amended: with max_retries = 0 a retryable failure that is not
\* interrupted is followed by the delay and a new attempt, and the run
\* returns only on success, on a non-retryable result, when interrupted, or
\* when the recovery of a critical (exit 7) attempt ends it.
C3_UnlimitedReturnsOnlyOnSuccessFatalInterruptOrRecovery ==
    [][ /\ (/\ pc = "classify" /\ pc' # pc /\ config.max_retries = 0
            /\ _is_retryable_error(result) /\ ~interrupted)
           => pc' = "sleep"
        /\ (pc' = "done" /\ config'.max_retries = 0)
           => \/ returned'.exit_code = EXIT_SUCCESS
              \/ ~_is_retryable_error(returned')
              \/ interrupted'
              \/ RecoveryEndedRun'
      ]_vars

C3_Witness ==
    /\ pc = "done"
    /\ config.max_retries = 0
    /\ ~interrupted
    /\ attempt = 2
    /\ returned.exit_code = EXIT_RETRYABLE
    /\ RecoveryEndedRun

\* sleeps and ordinary attempts alternate in the history: one sleep of
\* retry_delay between two consecutive ordinary attempts, none before the
\* first, at most one after the last (and then the next attempt is being
\* started)
SleepsSeparateAttempts(t, position, cfg) ==
    LET sleeps == Ops(t, "sleep")
        attempts == OrdinaryAttempts(t)
    IN  /\ \A s \in sleeps : t[s].arg = cfg.retry_delay
        /\ \A s \in sleeps : \E a \in attempts : a < s
        /\ \A a, b \in attempts :
              (a < b /\ ~\E c \in attempts : a < c /\ c < b)
              => Cardinality({s \in sleeps : a < s /\ s < b}) = 1
        /\ \A a \in attempts :
              (~\E b \in attempts : a < b)
              => /\ Cardinality({s \in sleeps : a < s}) <= 1
                 /\ {s \in sleeps : a < s} # {}
                    => position \in {"loop", "bisync"}

\* C4: exactly one sleep of the configured retry_delay lies between two
\* consecutive ordinary attempts, none before the first attempt and none
\* after the last; after a retryable failure of attempt 2 of 3 (no
\* interrupt) the controller sleeps once and starts attempt 3, and never an
\* attempt 4.
C4_OneFixedDelayBetweenAttempts ==
    [][ /\ SleepsSeparateAttempts(trace', pc', config')
        /\ (/\ pc = "classify" /\ pc' # pc
            /\ attempt = 2 /\ config.max_retries = DefaultMaxRetries
            /\ _is_retryable_error(result) /\ ~interrupted)
           => pc' = "sleep"
        /\ (pc = "sleep" /\ pc' # pc)
           => /\ pc' = "loop"
              /\ trace' = Append(trace, Event("sleep", config.retry_delay))
        /\ (pc = "loop" /\ pc' # pc)
           => /\ pc' = "bisync" /\ caller' = "attempt"
              /\ attempt' = attempt + 1
        /\ config.max_retries > 0 => attempt' <= config.max_retries
      ]_vars

C4_Witness ==
    /\ pc = "cleanup"
    /\ caller = "attempt"
    /\ attempt = DefaultMaxRetries
    /\ config.max_retries = DefaultMaxRetries
    /\ Cardinality(Ops(trace, "sleep")) = 2
    /\ Cardinality(OrdinaryAttempts(trace)) = DefaultMaxRetries

\* the history from position i on, with the given number of runs started and
\* not yet cleaned up: a run starts with none pending, a cleanup has one
\* pending, a return leaves none pending
RECURSIVE CleanupsMatchRuns(_, _)
CleanupsMatchRuns(i, pending) ==
    IF i > Len(trace) THEN TRUE
    ELSE IF trace[i].op = "bisync"
         THEN pending = 0 /\ CleanupsMatchRuns(i + 1, 1)
    ELSE IF trace[i].op = "cleanup_lock"
         THEN pending = 1 /\ CleanupsMatchRuns(i + 1, 0)
    ELSE IF trace[i].op = "exit"
         THEN pending = 0 /\ CleanupsMatchRuns(i + 1, 0)
    ELSE CleanupsMatchRuns(i + 1, pending)

\* C10: each whole-sync run of run_bisync, ordinary or forced resync, is
\* followed by exactly one lock cleanup before run_bisync returns, whether
\* the subprocess exited with 0, with another code, or could not be started.
C10_OneLockCleanupPerAttempt == CleanupsMatchRuns(1, 0)

C10_Witness ==
    /\ pc = "done"
    /\ ForcedResyncs(trace) # {}
    /\ \E i \in Ops(trace, "cleanup_lock") : trace[i].arg
    /\ \E i \in Ops(trace, "exit") : trace[i].arg = EXIT_SUCCESS
    /\ ~lock
\* the position in the history of the latest whole-sync run started
LastRun(t) == CHOOSE i \in Ops(t, "bisync") : \A j \in Ops(t, "bisync") : j <= i

NonRetryable(res) ==
    /\ res.exit_code # 1
    /\ ~(/\ res.exit_code = 7
         /\ \E i \in 1..Len(res.errors) :
                res.errors[i][2] = "retryable without --resync")

\* the files the log reports with "Failed to copy"
ReportedFailedToCopy(lg) ==
    { lg[i].path : i \in { j \in 1..Len(lg) :
          lg[j].kind = "error" /\ lg[j].what = "Failed to copy" } }

\* the history grew by per-file operations of the direct-copy pass only
OnlyDirectCopies(t, u) ==
    /\ Len(u) >= Len(t)
    /\ \A i \in 1..Len(u) :
          IF i <= Len(t) THEN u[i].op = t[i].op
          ELSE \/ u[i].op \in {"lsjson", "copyto"}
               \/ u[i].op = "sync_single_file" /\ u[i].arg = "direct"

\* C13: when the result of an attempt reaches the classification of line 334
\* and is non-retryable (exit code 2 among others), the controller neither
\* sleeps nor starts a whole-sync run: it returns that attempt's result,
\* at once or after one direct-copy pass that takes each file reported as
\* "Failed to copy" at most once.
C13_NonRetryableStopsAfterOneDirectCopyPass ==
    [][ /\ (pc = "classify" /\ pc' # pc /\ NonRetryable(result))
           => /\ pc' \in {"done", "direct_copy"}
              /\ trace' = trace
              /\ pc' = "done" => returned' = result
              /\ pc' = "direct_copy"
                 => /\ {queue'[i] : i \in 1..Len(queue')} = ReportedFailedToCopy(log)
                    /\ Len(queue') = Cardinality(ReportedFailedToCopy(log))
        /\ (pc = "direct_copy" /\ caller = "attempt")
           => /\ pc' \in {"direct_copy", "done"}
              /\ OnlyDirectCopies(trace, trace')
              /\ Len(queue') <= Len(queue)
              /\ Len(trace') > Len(trace) => queue' = Tail(queue)
              /\ pc' = "done" => returned' = result /\ trace' = trace
      ]_vars

C13_Witness ==
    /\ pc = "done"
    /\ caller = "attempt"
    /\ attempt = 2
    /\ returned = result
    /\ result.exit_code = EXIT_USAGE_ERROR
    /\ Ops(trace, "sleep") # {}
    /\ \E i \in Ops(trace, "sync_single_file") : trace[i].arg = "direct"

\* the individual retries made so far copied every file of the list
EveryFileCopied(failed, results) ==
    \A i \in 1..Len(failed) :
        \E j \in 1..Len(results) :
            /\ results[j].path = failed[i]
            /\ results[j].action \in {"pushed", "pulled"}

\* C14: after a critical attempt with transiently failed files the forced
\* resync is started only if every file of the failed list was retried and
\* copied (pushed or pulled); a file skipped or never attempted does not
\* count as a success.
C14_ResyncOnlyIfEveryFileCopied ==
    [][ (pc = "retry_files" /\ pc' = "bisync")
        => EveryFileCopied(_parse_failed_files(log), retry_results)
      ]_vars

\* one of the individual retries of the current pass ended in error
SomeRetryFailed == \E i \in 1..Len(retry_results) : retry_results[i].action = "error"

\* the history grew by per-file operations of the individual-retry pass only
OnlyIndividualRetries(t, u) ==
    /\ Len(u) >= Len(t)
    /\ \A i \in 1..Len(u) :
          IF i <= Len(t) THEN u[i].op = t[i].op
          ELSE \/ u[i].op \in {"lsjson", "copyto"}
               \/ u[i].op = "sync_single_file" /\ u[i].arg = "retry"

\* C15: once an individual-file retry after a critical attempt has ended in
\* error, the controller only finishes the retry pass and then returns the
\* exit 7 result of the attempt: no forced resync, no whole-sync run, no
\* sleep and no direct-copy pass is started.
C15_FailedRetryReturnsCriticalResult ==
    [][ (pc = "retry_files" /\ SomeRetryFailed)
        => /\ pc' \in {"retry_files", "done"}
           /\ OnlyIndividualRetries(trace, trace')
           /\ config' = config
           /\ pc' = "done"
              => /\ returned' = result
                 /\ result.exit_code = EXIT_CRITICAL
                 /\ trace' = trace
                 /\ ForcedResyncs(trace') = {}
      ]_vars

C15_Witness ==
    /\ pc = "done"
    /\ SomeRetryFailed
    /\ IndividualRetries(trace) # {}
    /\ returned = result
    /\ result.exit_code = EXIT_CRITICAL
    /\ Last(trace).op = "copyto"

\* exit code 1, or exit code 7 with an error that says "retryable without
\* --resync"
Retryable(res) ==
    \/ res.exit_code = 1
    \/ /\ res.exit_code = 7
       /\ \E i \in 1..Len(res.errors) :
              res.errors[i][2] = "retryable without --resync"

\* C16: when a retryable failed attempt has finished and the cancellation
\* flag is set, the controller goes to the classification and returns that
\* attempt's result unchanged, with no sleep and no other run; it does the
\* same at the classification when the retry budget is used up.
C16_CancelledOrExhaustedReturnsLastResult ==
    [][ /\ (pc = "evaluate" /\ pc' # pc /\ interrupted /\ Retryable(result))
           => pc' = "classify" /\ trace' = trace
        /\ (/\ pc = "classify" /\ pc' # pc /\ Retryable(result)
            /\ \/ interrupted
               \/ config.max_retries > 0 /\ attempt >= config.max_retries)
           => /\ pc' = "done"
              /\ returned' = result
              /\ trace' = trace
      ]_vars

\* the heads of the four per-file loops: _retry_failed_transfers,
\* _retry_with_direct_copy, retry_failed_files, resolve_remaining_conflicts
LoopHeads == {"retry_files", "direct_copy", "main_retry", "resolve_loop"}

\* C17: the interrupt only sets the flag; a conflict resolution that has
\* made its remote query when the flag is set is still carried out and
\* recorded; and at the head of each of the four per-file loops, once the
\* flag is set, no further file is started: nothing is queried, copied,
\* renamed, deleted or recorded.
C17_CancellationOnlyBetweenFiles ==
    [][ /\ interrupted' # interrupted
           => /\ interrupted'
              /\ <<pc', files', remote', trace', queue', retry_results',
                    conflict_files', resolutions', cur'>>
                 = <<pc, files, remote, trace, queue, retry_results,
                     conflict_files, resolutions, cur>>
        /\ (pc = "resolve_apply" /\ pc' # pc)
           => /\ pc' = "resolve_loop"
              /\ Len(resolutions') = Len(resolutions) + 1
              /\ (~config.dry_run /\ Last(resolutions').action # "error")
                 => cur.conflict_file \notin DOMAIN files'
        /\ (pc \in LoopHeads /\ interrupted)
           => /\ pc' \notin {"resolve_apply"}
              /\ <<files', remote', trace', queue', retry_results',
                    conflict_files', resolutions'>>
                 = <<files, remote, trace, queue, retry_results,
                     conflict_files, resolutions>>
      ]_vars

C17_Witness ==
    /\ pc = "exit"
    /\ interrupted
    /\ queue # <<>>
    /\ Len(retry_results) = 1
    /\ Ops(trace, "retry_failed_file") # {}

\* the actions a comparison of the two times can record
ActionsFor(local_mtime, remote_mtime) ==
    IF local_mtime > remote_mtime THEN {"kept_local", "would_keep_local"}
    ELSE IF remote_mtime > local_mtime THEN {"kept_remote", "would_keep_remote"}
    ELSE {"kept_both", "would_keep_both"}

\* C18: the resolver changes the tree only when it applies a resolution;
\* the remote time it then compares is the answer of the query made for
\* this conflict, the last operation before the change, and is the remote
\* file's own time; the query is made after the marker was picked, with
\* nothing changed; and when the query gives no time the conflict is left
\* as it is and nothing is recorded.
C18_FreshRemoteTimePerConflict ==
    [][ /\ (files' # files \/ resolutions' \notin {resolutions, <<>>})
           => pc = "resolve_apply"
        /\ (pc = "resolve_apply" /\ pc' # pc)
           => /\ Last(trace).op = "lsjson"
              /\ Last(trace).arg = cur.remote_mtime_ns
              /\ cur.remote_mtime_ns = remote[cur.original_file].mtime
              /\ cur.local_mtime_ns = files[cur.original_file].mtime
              /\ Last(resolutions').action \in
                    ActionsFor(files[cur.original_file].mtime, Last(trace).arg)
                    \cup {"error"}
        /\ (pc = "resolve_loop" /\ Len(trace') = Len(trace) + 1)
           => /\ Last(trace').op = "lsjson"
              /\ <<files', remote', resolutions'>> = <<files, remote, resolutions>>
              /\ \E m \in conflict_files :
                    /\ conflict_files' = conflict_files \ {m}
                    /\ IF Last(trace').arg = None
                       THEN pc' = "resolve_loop" /\ cur' = cur
                       ELSE /\ pc' = "resolve_apply"
                            /\ cur'.conflict_file = m
                            /\ cur'.remote_mtime_ns = Last(trace').arg
      ]_vars

C18_Witness ==
    /\ pc = "resolve_loop"
    /\ runNo = 1
    /\ Len(resolutions) = 2
    /\ \E i, j \in Ops(trace, "lsjson") :
          /\ i < j
          /\ trace[i].arg # None /\ trace[j].arg # None
          /\ trace[i].arg # trace[j].arg

\* C19: the forced resync without individual retries is started only when
\* the log shows a 100% transfer summary and its error lines are all
\* metadata-update errors; a log that also holds a "Failed to copy" line
\* does not take this path.
C19_MetadataPathOnlyWithoutDataErrors ==
    [][ (pc = "evaluate" /\ caller' = "resync_meta")
        => MetadataErrorsOnly(log)
      ]_vars

\* the modification time of a file in a tree, None when the tree has no
\* such file
MtimeIn(tree, path) == IF path \in DOMAIN tree THEN tree[path].mtime ELSE None

\* C20: an individual-file retry pushes the file only when the local copy
\* exists and the remote copy is older or does not exist, pulls it only when
\* the remote copy exists and the local copy is older or does not exist, and
\* copies nothing when the two times are equal or neither side has the file.
C20_CopyDirectionIsNewerSide ==
    [][ (/\ pc \in {"retry_files", "direct_copy"}
         /\ Len(retry_results') = Len(retry_results) + 1)
        => LET r == Last(retry_results')
               local_mtime == MtimeIn(files, r.path)
               remote_mtime == MtimeIn(remote, r.path)
           IN /\ r.action = "pushed"
                 => /\ local_mtime # None
                    /\ remote_mtime = None \/ local_mtime > remote_mtime
              /\ r.action = "pulled"
                 => /\ remote_mtime # None
                    /\ local_mtime = None \/ remote_mtime > local_mtime
              /\ local_mtime = remote_mtime
                 => /\ r.action \notin {"pushed", "pulled", "error"}
                    /\ <<files', remote'>> = <<files, remote>>
      ]_vars

\* C11: two managers of one pair never have their sync subprocesses running
\* at the same time, and while a manager's subprocess runs and holds the
\* pair's lock, no step of another manager removes that lock.
C11_NoConcurrentAttemptsOnPair ==
    [][ /\ \A m, n \in Managers :
              m # n => ~(mgr_pc'[m] = "running" /\ mgr_pc'[n] = "running")
        /\ \A m \in Managers :
              (mgr_pc[m] = "running" /\ mgr_pc'[m] = "running" /\ lock_owner = m)
              => lock_owner' = m
      ]_vars

\* C21: when resolve_remaining_conflicts returns after visiting every marker
\* it found, its list holds one Resolution per marker found, skipped markers
\* (original missing, name not parsed, remote time unavailable) included.
C21_EveryMarkerYieldsAResolution ==
    (pc = "resolve_return" /\ conflict_files = {})
        => Len(resolutions) = Cardinality(conflict_glob(snap.start))

\* the dry-run name of a real action
WouldOf(action) ==
    CASE action = "kept_local" -> "would_keep_local"
      [] action = "kept_remote" -> "would_keep_remote"
      [] action = "kept_both" -> "would_keep_both"
      [] OTHER -> action

\* C22: for every pair of local and remote modification times a conflict is
\* decided with, the action a dry run records is the would_ form of the
\* action the real branch decides for the same pair, and the action a real
\* resolution records has as its would_ form the dry-run decision.
C22_DryRunDecisionMatchesReal ==
    [][ (pc = "resolve_apply" /\ pc' = "resolve_loop")
        => IF config.dry_run
           THEN Last(resolutions').action
                    = WouldOf(RealAction(cur.local_mtime_ns, cur.remote_mtime_ns))
           ELSE Last(resolutions').action # "error"
                => WouldOf(Last(resolutions').action)
                      = DryRunAction(cur.local_mtime_ns, cur.remote_mtime_ns)
      ]_vars

C22_Witness ==
    /\ config.dry_run
    /\ pc = "resolve_loop"
    /\ resolutions # <<>>
    /\ Last(resolutions).action = "would_keep_both"

\* the message of a failed single-file copy (lines 789-793, 829-833)
CopyFailure(path) == <<path, "Failed to copy to or from remote", FALSE>>

CapturedIn(errors, message) == \E j \in 1..Len(errors) : errors[j] = message

\* C23: when run_sync_with_retry returns, the errors list of its result
\* holds the launch failure of every attempt of the run whose subprocess
\* could not be started, and the failure of every single-file copy that
\* failed in the last individual-retry or direct-copy pass.
C23_ExternalFailuresAreInErrors ==
    (pc = "done" /\ caller # "unit")
    => /\ (\E i \in 1..Len(trace) :
              trace[i].op = "cleanup_lock" /\ trace[i].arg = TRUE)
          => CapturedIn(returned.errors, LaunchError)
       /\ \A i \in 1..Len(retry_results) :
              retry_results[i].action = "error"
              => CapturedIn(returned.errors, CopyFailure(retry_results[i].path))

\* C25: no step of the manager (run_bisync, run_sync_with_retry, conflict
\* resolution, the retries of main) changes a field of the configuration.
C25_ConfigIsReadOnly == [][config' = config]_vars

\* the actions the Resolution type documents, would_* being the dry-run ones
DocumentedActions ==
    {"kept_local", "kept_remote", "kept_both", "error",
     "would_keep_local", "would_keep_remote", "would_keep_both",
     "would_push", "would_pull"}

\* C26: when main has finished with the result (the entries of
\* retry_failed_files appended), every Resolution in its conflicts_resolved
\* has one of the documented actions.
C26_ResolutionActionsAreDocumented ==
    pc = "exit"
    => \A i \in 1..Len(returned.conflicts_resolved) :
          returned.conflicts_resolved[i].action \in DocumentedActions

\* C27: two different whole-sync attempts of one run (ordinary attempts or
\* the forced resync) are never started with the same log file.
C27_OneLogFilePerAttempt ==
    \A i, j \in Ops(trace, "bisync") :
        i # j => trace[i].log_file # trace[j].log_file

(* ============================ main as a whole ========================== *)
\* C24: when the configuration is invalid, main exits with status 2 having
\* left the log directory as it found it (no directory made, no log file
\* created), having started no sync and written no summary.
C24_InvalidConfigTouchesNothing ==
    (main_pc = "exit" /\ ~ValidConfig(main_in))
    => /\ main_status = 2
       /\ log_dir = main_in.dir0
       /\ summary = <<>>
       /\ \A i \in 1..Len(main_trace) :
             main_trace[i].op \notin {"run_sync_with_retry", "mkdir", "open_log"}

\* the logs of a directory
LogsIn(dir) == {n \in DOMAIN dir.files : MatchesLogGlob(n)}

\* C28: when rotate_logs has run with max_logs >= 0 and every deletion
\* succeeded, at most max_logs logs remain in the directory, every log that
\* remains is at least as recent as every log that was deleted, and no file
\* that is not a log was touched.
C28_RotationKeepsTheNewestLogs ==
    [][ (main_pc = "summarised" /\ main_pc' = "rotated"
           /\ main_in.max_logs >= 0 /\ Last(main_trace').arg = {})
        => /\ Cardinality(LogsIn(log_dir')) <= main_in.max_logs
           /\ LogsIn(log_dir') \subseteq LogsIn(log_dir)
           /\ \A kept \in LogsIn(log_dir'), gone \in LogsIn(log_dir) \ LogsIn(log_dir') :
                 log_dir.files[kept] >= log_dir.files[gone]
           /\ \A n \in DOMAIN log_dir.files \ LogsIn(log_dir) :
                 n \in DOMAIN log_dir'.files /\ log_dir'.files[n] = log_dir.files[n]
      ]_vars

C28_Witness ==
    /\ main_pc = "rotated"
    /\ main_in.max_logs = 1
    /\ Last(main_trace).op = "rotate_logs"
    /\ Last(main_trace).arg = {}
    /\ Cardinality(LogsIn(main_in.dir0)) = 2
    /\ \E a, b \in LogsIn(main_in.dir0) : main_in.dir0.files[a] # main_in.dir0.files[b]
    /\ Cardinality(LogsIn(log_dir)) = 1

\* the positions of main's calls of one kind
MainOps(op) == {i \in 1..Len(main_trace) : main_trace[i].op = op}

\* C29 as stated: a run that passed validation ends with the summary file
\* written exactly once, after the controller returned and before the logs
\* were rotated, its exit_code the status main returns and its log_file the
\* log file of the run.
C29_SummaryWrittenOnce ==
    (main_pc = "exit" /\ ValidConfig(main_in))
    => /\ Len(summary) = 1
       /\ summary[1].exit_code = main_status
       /\ summary[1].log_file = log_file
       /\ \A r \in MainOps("run_sync_with_retry"), w \in MainOps("write_summary"),
             t \in MainOps("rotate_logs") : r < w /\ w < t

\* C29, amended: a run that passed validation ends with write_summary
\* called exactly once, after the controller returned and before the logs
\* were rotated; if the write did not raise, the summary file was written
\* exactly once, its exit_code the status main returns and its log_file the
\* log file of the run; if it raised, no summary was written and main
\* still returns the result's exit code.
C29_SummaryCalledOnceWrittenUnlessWriteFails ==
    (main_pc = "exit" /\ ValidConfig(main_in))
    => /\ Cardinality(MainOps("write_summary")) = 1
       /\ Cardinality(MainOps("run_sync_with_retry")) = 1
       /\ Cardinality(MainOps("rotate_logs")) = 1
       /\ \A r \in MainOps("run_sync_with_retry"), w \in MainOps("write_summary"),
             t \in MainOps("rotate_logs") : r < w /\ w < t
       /\ main_status = main_result.exit_code
       /\ \A w \in MainOps("write_summary") :
             IF main_trace[w].arg
             THEN /\ Len(summary) = 1
                  /\ summary[1].exit_code = main_status
                  /\ summary[1].log_file = log_file
             ELSE summary = <<>>

C29_Witness ==
    /\ main_pc = "exit"
    /\ ValidConfig(main_in)
    /\ main_status = EXIT_CRITICAL
    /\ Len(summary) = 1
    /\ summary[1].exit_code = EXIT_CRITICAL

(* ============================ the log digest =========================== *)
\* C30: at every point of extract_log_digest and when it returns, the
\* errors list holds no message twice and at most MAX_ERRORS messages,
\* however often a message repeats in the log.
C30_DigestErrorsAreDistinctAndCapped ==
    /\ \A i, j \in 1..Len(digest_errors) :
          i # j => digest_errors[i] # digest_errors[j]
    /\ Len(digest_errors) <= MAX_ERRORS

C30_Witness ==
    /\ digest_pc = "returned"
    /\ Len(digest_errors) = 2
    /\ digest_skipped = 3
    /\ digest_read = 5

(* ===================== the controller, further claims ================== *)
\* C31: the errors list of the result run_sync_with_retry returns holds
\* each error message at most once.
C31_ParsedErrorsAreDistinct ==
    (pc = "done" /\ caller # "unit")
    => \A i, j \in 1..Len(returned.errors) :
          i # j => returned.errors[i] # returned.errors[j]

\* C32: a line of the log that is recorded as a protective skip (it adds an
\* entry to folders_not_deleted) is not added to the errors list.
C32_ProtectiveSkipIsNotAnError ==
    [][ folders_not_deleted' # folders_not_deleted
        => digest_errors' = digest_errors ]_vars

\* C33: once the cancellation flag is set, no further whole-sync attempt
\* is started after the first one: neither an ordinary retry nor a forced
\* resync.
C33_NoAttemptAfterCancellation ==
    [][ (pc # "bisync" /\ pc' = "bisync" /\ attempt >= 1) => ~interrupted ]_vars

\* the lines the last attempt started wrote to the log
OwnLines == SubSeq(log, trace[LastRun(trace)].log_start + 1, Len(log))

\* C34: what the controller evaluates after an attempt that ran (its error
\* list, the transfers-complete and metadata check, the list of transiently
\* failed files and the list of copy failures) is what the lines written by
\* that attempt alone give.
C34_EvaluationUsesOwnLinesOnly ==
    (pc = "evaluate" /\ ~proc.raised)
    => /\ result.errors = ParsedErrors(OwnLines)
       /\ _is_retryable_error(result)
             = _is_retryable_error([result EXCEPT !.errors = ParsedErrors(OwnLines)])
       /\ _check_transfers_completed(log) = _check_transfers_completed(OwnLines)
       /\ _parse_failed_files(log) = _parse_failed_files(OwnLines)
       /\ _parse_copy_failures(log) = _parse_copy_failures(OwnLines)

\* C35: with max_retries = N > 0 a run starts at most N ordinary attempts
\* and at most one forced resync, which is the last whole-sync run of the
\* run whatever its exit code; and a forced resync is started only from a
\* configuration that is not in resync mode.
C35_AtMostNAttemptsAndOneForcedResync ==
    [][ /\ config'.max_retries > 0
           => /\ Cardinality(OrdinaryAttempts(trace')) <= config'.max_retries
              /\ Cardinality(ForcedResyncs(trace')) <= 1
              /\ \A i \in ForcedResyncs(trace'), j \in Ops(trace', "bisync") : j <= i
        /\ (caller = "attempt" /\ caller' # "attempt")
           => /\ ~config.resync
              /\ ForcedResyncs(trace) = {}
        /\ caller = "attempt" => config'.resync = config.resync \/ caller' # "attempt"
      ]_vars

C35_Witness ==
    /\ pc = "done"
    /\ config.max_retries = 2
    /\ Cardinality(OrdinaryAttempts(trace)) = 2
    /\ Cardinality(ForcedResyncs(trace)) = 1
    /\ returned.exit_code = EXIT_CRITICAL

\* C36: in a run whose subprocess calls all return, if max_retries > 0 or
\* the cancellation flag is eventually set, run_sync_with_retry eventually
\* returns, whatever the exit codes and the log contents.
C36_ControllerEventuallyReturns ==
    (config.max_retries > 0 \/ <>interrupted) => <>(pc = "done")

C36_Witness ==
    /\ pc = "done"
    /\ config.max_retries = 0
    /\ interrupted
    /\ attempt = MaxUnlimitedAttempts + 1
    /\ returned.exit_code = EXIT_RETRYABLE

\* C37: the resolver records kept_local for a conflict only if the push of
\* the local file to the remote succeeded: after the step that records it,
\* the remote holds the local file.
C37_KeptLocalOnlyIfPushed ==
    [][ (/\ pc = "resolve_apply"
         /\ Len(resolutions') = Len(resolutions) + 1
         /\ Last(resolutions').action = "kept_local")
        => remote' = PushedRemote(remote, files', cur.original_file) ]_vars

\* C38: a resolution through the equal-timestamp branch destroys no file:
\* every content the local tree held before the step, that of a .local-date
\* or .remote-date file kept by an earlier resolution included, is still
\* held by some file after it.
C38_EqualBranchDestroysNothing ==
    [][ (/\ pc = "resolve_apply"
         /\ ~IsDryRun(config)
         /\ cur.remote_mtime_ns = cur.local_mtime_ns)
        => \A n \in DOMAIN files :
              \E m \in DOMAIN files' : files'[m].content = files[n].content ]_vars

\* C39: when _sync_single_file's query of the remote modification time
\* fails although the remote file exists, no copy is started in either
\* direction and neither tree changes.
C39_FailedQueryCopiesNothing ==
    [][ (/\ pc \in {"retry_files", "direct_copy"}
         /\ Len(retry_results') = Len(retry_results) + 1
         /\ Exists(remote, Last(retry_results').path)
         /\ trace'[Len(trace) + 2].op = "lsjson"
         /\ trace'[Len(trace) + 2].arg = None)
        => /\ Len(trace') = Len(trace) + 2
           /\ <<files', remote'>> = <<files, remote>> ]_vars

\* C40: with dry_run set, a step of a per-file retry loop (through
\* _copy_to_remote and _copy_from_remote) starts no copy subprocess and
\* changes nothing in the local tree, a missing parent directory included.
C40_DryRunCopiesTouchNothing ==
    [][ (config.dry_run /\ pc \in {"retry_files", "direct_copy", "main_retry"})
        => /\ files' = files
           /\ \A i \in (Len(trace) + 1)..Len(trace') : trace'[i].op # "copyto"
      ]_vars
====
